---- MODULE Spec2Model ----
(***************************************************************************)
(* The recommendation engine of the TeachSmart chatbot                     *)
(* (src/python-server/teachsmart_for_project.py), the stand-alone          *)
(* EnhancedActivityGenerator (src/python-server/enhanced_activity_         *)
(* generator.py) and the way the server shares one chatbot instance        *)
(* (src/python-server/chatbot_server.py).                                  *)
(*                                                                         *)
(* A Python string whose characters the code inspects (a note, a request   *)
(* text, a regular expression, a student name) is a sequence of            *)
(* one-character strings; a string that is only carried along (a material, *)
(* a step, a duration) is a TLA+ string.  A Python list is a sequence.     *)
(***************************************************************************)
EXTENDS Integers, Sequences, FiniteSets, TLC

(***************************************************************************)
(* Characters and str methods                                              *)
(***************************************************************************)
UpperCase ==
  <<"A","B","C","D","E","F","G","H","I","J","K","L","M",
    "N","O","P","Q","R","S","T","U","V","W","X","Y","Z">>

LowerCase ==
  <<"a","b","c","d","e","f","g","h","i","j","k","l","m",
    "n","o","p","q","r","s","t","u","v","w","x","y","z">>

Digits == {"0","1","2","3","4","5","6","7","8","9"}

\* the characters \s matches and str.strip() removes (ASCII)
Whitespace == {" ", "\t", "\n", "\r", "\f"}

Range(s) == {s[i] : i \in 1..Len(s)}

UpperCaseLetters == Range(UpperCase)

LowerCaseLetters == Range(LowerCase)

to_lower ==
  "A" :> "a" @@ "B" :> "b" @@ "C" :> "c" @@ "D" :> "d" @@ "E" :> "e" @@
  "F" :> "f" @@ "G" :> "g" @@ "H" :> "h" @@ "I" :> "i" @@ "J" :> "j" @@
  "K" :> "k" @@ "L" :> "l" @@ "M" :> "m" @@ "N" :> "n" @@ "O" :> "o" @@
  "P" :> "p" @@ "Q" :> "q" @@ "R" :> "r" @@ "S" :> "s" @@ "T" :> "t" @@
  "U" :> "u" @@ "V" :> "v" @@ "W" :> "w" @@ "X" :> "x" @@ "Y" :> "y" @@
  "Z" :> "z"

lower_char(c) == IF c \in UpperCaseLetters THEN to_lower[c] ELSE c

\* str.lower(); SubSeq makes the result a sequence value
lower(s) == SubSeq([i \in 1..Len(s) |-> lower_char(s[i])], 1, Len(s))

\* the `in` operator on two strings
contains(s, sub) ==
  \E i \in 0..(Len(s) - Len(sub)) : SubSeq(s, i + 1, i + Len(sub)) = sub

\* str.startswith at a position: sub occurs in s at index i
occurs_at(s, sub, i) ==
  /\ i >= 1
  /\ i + Len(sub) - 1 <= Len(s)
  /\ SubSeq(s, i, i + Len(sub) - 1) = sub

\* str.strip()
RECURSIVE lstrip(_)
lstrip(s) ==
  IF s # <<>> /\ Head(s) \in Whitespace THEN lstrip(Tail(s)) ELSE s

RECURSIVE rstrip(_)
rstrip(s) ==
  IF s # <<>> /\ s[Len(s)] \in Whitespace
    THEN rstrip(SubSeq(s, 1, Len(s) - 1))
    ELSE s

strip(s) == rstrip(lstrip(s))

(***************************************************************************)
(* re.search for the rule patterns: an alternation of literals, in which a *)
(* character class such as [\s\-] may stand, optionally followed by ?      *)
(***************************************************************************)
\* the alternatives of a pattern: its pieces between the "|" characters
alternatives(p) ==
  LET bars == {i \in 1..Len(p) : p[i] = "|"}
      starts == {1} \cup {b + 1 : b \in bars}
      stop(s) == IF \E b \in bars : b >= s
                   THEN (CHOOSE b \in bars : b >= s /\ \A c \in bars : c >= s => b <= c) - 1
                   ELSE Len(p)
  IN  {SubSeq(p, s, stop(s)) : s \in starts}

RECURSIVE class_chars(_)
class_chars(body) ==
  IF body = <<>> THEN {}
  ELSE IF Head(body) = "\\" /\ Len(body) >= 2
    THEN (IF body[2] = "s" THEN Whitespace ELSE {body[2]})
           \cup class_chars(SubSeq(body, 3, Len(body)))
    ELSE {Head(body)} \cup class_chars(Tail(body))

RECURSIVE match_here(_, _, _, _)
match_here(alt, j, text, i) ==
  IF j > Len(alt) THEN TRUE
  ELSE IF alt[j] = "["
    THEN LET k == CHOOSE k \in (j + 1)..Len(alt) :
                    alt[k] = "]" /\ \A m \in (j + 1)..(k - 1) : alt[m] # "]"
             cls == class_chars(SubSeq(alt, j + 1, k - 1))
             opt == k < Len(alt) /\ alt[k + 1] = "?"
             nxt == IF opt THEN k + 2 ELSE k + 1
         IN  \/ /\ i <= Len(text)
                /\ text[i] \in cls
                /\ match_here(alt, nxt, text, i + 1)
             \/ opt /\ match_here(alt, nxt, text, i)
    ELSE /\ i <= Len(text)
         /\ lower_char(text[i]) = lower_char(alt[j])
         /\ match_here(alt, j + 1, text, i + 1)

\* re.search(pattern, text, re.IGNORECASE) is not None
re_search(pattern, text) ==
  \E alt \in alternatives(pattern) :
    \E i \in 1..(Len(text) + 1) : match_here(alt, 1, text, i)

(***************************************************************************)
(* The rule tables, as loaded                                              *)
(***************************************************************************)
Labels == {0, 1, 2}

\* TeachSmartChatbot._load_activity_mapping_rules: label -> rules in dict (insertion) order
_load_activity_mapping_rules ==
  0 :> <<
      [ pattern |-> <<"t","a","n","t","r","u","m","|","m","e","l","t","d","o","w","n","|","m","a","r","a","h","|","m","e","n","a","n","g","i","s","|","c","r","y","i","n","g","|","u","p","s","e","t">>,
        type |-> "calming_sensory",
        activity |-> [
          name |-> "Deep Pressure Calm Down",
          description |-> "Use weighted lap pad and deep breathing with favorite stuffed animal",
          materials |-> <<"Weighted lap pad",
                          "Soft stuffed animal",
                          "Quiet space">>,
          steps |-> <<"Guide student to quiet corner with dim lighting",
                      "Place weighted lap pad on student's lap",
                      "Model slow breathing: 'Breathe in like smelling flowers, out like blowing bubbles'",
                      "Stay nearby but give space",
                      "Wait for student to signal readiness to return">>,
          duration |-> "5-10 minutes",
          level |-> "immediate support" ] ],
      [ pattern |-> <<"t","i","d","a","k"," ","b","i","s","a"," ","k","o","n","s","e","n","t","r","a","s","i","|","h","y","p","e","r","a","c","t","i","v","e","|","t","i","d","a","k"," ","f","o","k","u","s","|","c","a","n","'","t"," ","f","o","c","u","s","|","a","t","t","e","n","t","i","o","n">>,
        type |-> "attention_regulation",
        activity |-> [
          name |-> "Focus Basket Activity",
          description |-> "Simple sorting task with immediate success",
          materials |-> <<"2 baskets",
                          "5 large colorful objects",
                          "Timer">>,
          steps |-> <<"Set timer for 2 minutes only",
                      "Show 2 baskets: red objects and blue objects",
                      "Start with just 3 objects total",
                      "Celebrate each correct placement immediately",
                      "Stop before student gets frustrated">>,
          duration |-> "2-3 minutes",
          level |-> "immediate support" ] ],
      [ pattern |-> <<"t","i","d","a","k"," ","m","a","u","|","m","e","n","o","l","a","k","|","a","g","g","r","e","s","s","i","v","e","|","r","e","f","u","s","e","s","|","w","o","n","'","t"," ","p","a","r","t","i","c","i","p","a","t","e">>,
        type |-> "engagement_building",
        activity |-> [
          name |-> "Choice-Based Engagement",
          description |-> "Offer 2 simple choices to rebuild cooperation",
          materials |-> <<"2 preferred activities",
                          "Visual choice board">>,
          steps |-> <<"Present 2 choices visually: 'Do you want blocks or puzzles?'",
                      "Honor the choice immediately",
                      "Start with 1-minute activity",
                      "End on positive note before resistance builds",
                      "Gradually increase expectations">>,
          duration |-> "1-2 minutes",
          level |-> "immediate support" ] ],
      [ pattern |-> <<"t","u","r","n","[","\\","s","\\","-","]","?","t","a","k","i","n","g","|","s","h","a","r","i","n","g","|","w","o","n","'","t"," ","s","h","a","r","e","|","g","r","a","b","b","i","n","g","|","t","a","k","i","n","g"," ","t","o","y","s","|","t","e","a","c","h"," ","t","u","r","n","|","h","o","w"," ","d","o"," ","i"," ","t","e","a","c","h"," ","t","u","r","n">>,
        type |-> "basic_social_skills",
        activity |-> [
          name |-> "Simple Turn-Taking with Timer",
          description |-> "Very basic turn-taking with highly preferred item and visual timer",
          materials |-> <<"One highly preferred toy/activity",
                          "Visual timer",
                          "Turn-taking cards">>,
          steps |-> <<"Start with just 10-15 seconds per turn",
                      "Use visual timer that student can see counting down",
                      "Hold up 'My Turn' card when it's student's turn",
                      "Hold up 'Your Turn' card when it's adult's turn",
                      "Immediately give item when timer goes off",
                      "Celebrate: 'Great waiting!' when student waits">>,
          duration |-> "3-5 minutes total",
          level |-> "immediate support" ] ] >>
  @@
  1 :> <<
      [ pattern |-> <<"c","o","u","n","t","|","c","o","u","n","t","i","n","g","|","n","u","m","b","e","r","s","|","m","a","t","h">>,
        type |-> "math_support",
        activity |-> [
          name |-> "Counting Bears Adventure",
          description |-> "Use teddy bear counters in favorite colors",
          materials |-> <<"Teddy bear counters",
                          "Ice cube trays",
                          "Number cards 1-10">>,
          steps |-> <<"Start with 5 colorful teddy bears",
                      "Show how to place one bear in each ice cube compartment",
                      "Count together: 'One bear, two bears, three bears...'",
                      "Let student try with 3 bears first, then build up",
                      "Sing counting songs while placing bears">>,
          duration |-> "8-12 minutes",
          level |-> "developing with support" ] ],
      [ pattern |-> <<"b","a","n","t","u","|","b","a","n","t","u","a","n","|","d","e","n","g","a","n"," ","b","a","n","t","u","a","n","|","p","e","r","l","u"," ","b","a","n","t","u","a","n","|","n","e","e","d","s"," ","h","e","l","p","|","w","i","t","h"," ","h","e","l","p">>,
        type |-> "assisted_learning",
        activity |-> [
          name |-> "Hand-Over-Hand Number Matching",
          description |-> "Match number cards 1-3 with physical guidance",
          materials |-> <<"Large number cards 1-3",
                          "Matching objects",
                          "Visual supports">>,
          steps |-> <<"Place number card 1 on table",
                      "Guide student's hand to pick up 1 object",
                      "Help place object on number card",
                      "Say: 'One object on number one!'",
                      "Gradually reduce physical support",
                      "Celebrate each success immediately">>,
          duration |-> "5-8 minutes",
          level |-> "developing with support" ] ],
      [ pattern |-> <<"t","u","r","n","[","\\","s","\\","-","]","?","t","a","k","i","n","g","|","s","h","a","r","i","n","g","|","s","o","c","i","a","l"," ","s","k","i","l","l","s","|","p","l","a","y","i","n","g"," ","w","i","t","h"," ","o","t","h","e","r","s","|","t","e","a","c","h"," ","t","u","r","n","|","h","o","w"," ","d","o"," ","i"," ","t","e","a","c","h"," ","t","u","r","n">>,
        type |-> "social_skills_development",
        activity |-> [
          name |-> "Turn-Taking with Visual Supports",
          description |-> "Practice turn-taking with clear visual cues and structured routine",
          materials |-> <<"Preferred activity/toy",
                          "Turn-taking visual cards",
                          "Sand timer (1-2 minutes)",
                          "Social story about turn-taking">>,
          steps |-> <<"Read simple social story about turn-taking first",
                      "Show 'My Turn' and 'Your Turn' cards clearly",
                      "Start with 30-second turns using sand timer",
                      "Model appropriate language: 'My turn now' and 'Your turn next'",
                      "Practice with adult first, then introduce peer if ready",
                      "Praise waiting behavior: 'Great job waiting for your turn!'",
                      "Gradually increase turn length to 1-2 minutes">>,
          duration |-> "10-15 minutes",
          level |-> "developing with support" ] ] >>
  @@
  2 :> <<
      [ pattern |-> <<"m","a","n","d","i","r","i","|","s","e","n","d","i","r","i","|","b","i","s","a"," ","s","e","n","d","i","r","i","|","i","n","d","e","p","e","n","d","e","n","t","|","c","a","n"," ","d","o"," ","a","l","o","n","e">>,
        type |-> "independent_challenge",
        activity |-> [
          name |-> "Multi-Step Problem Solving",
          description |-> "Complete 4-step sequence independently",
          materials |-> <<"Complex puzzle",
                          "Multi-step instructions",
                          "Self-check list">>,
          steps |-> <<"Present 4-step visual instruction card",
                      "Student reads/interprets steps independently",
                      "Provide materials but minimal guidance",
                      "Student self-checks work against model",
                      "Encourage problem-solving when stuck">>,
          duration |-> "12-15 minutes",
          level |-> "independent challenge" ] ],
      [ pattern |-> <<"b","a","i","k","|","b","a","g","u","s","|","e","x","c","e","l","l","e","n","t","|","s","e","m","p","u","r","n","a","|","d","o","i","n","g"," ","w","e","l","l","|","g","r","e","a","t"," ","p","r","o","g","r","e","s","s">>,
        type |-> "extension_activity",
        activity |-> [
          name |-> "Creative Extension Challenge",
          description |-> "Apply learned skills in new creative way",
          materials |-> <<"Open-ended materials",
                          "Challenge card",
                          "Documentation tools">>,
          steps |-> <<"Present open-ended challenge: 'Create your own pattern using any materials'",
                      "Student chooses materials and approach",
                      "Student explains their thinking process",
                      "Student documents their creation",
                      "Student presents to others">>,
          duration |-> "15-20 minutes",
          level |-> "independent challenge" ] ],
      [ pattern |-> <<"s","i","a","p","|","r","e","a","d","y","|","n","e","x","t"," ","l","e","v","e","l","|","a","d","v","a","n","c","e","d","|","c","h","a","l","l","e","n","g","e">>,
        type |-> "advanced_skill",
        activity |-> [
          name |-> "Peer Collaboration Project",
          description |-> "Work with peer to complete complex task",
          materials |-> <<"Collaborative materials",
                          "Role cards",
                          "Project rubric">>,
          steps |-> <<"Assign complementary roles to each student",
                      "Students plan approach together",
                      "Students divide tasks and work collaboratively",
                      "Students check each other's work",
                      "Students present joint project">>,
          duration |-> "20-25 minutes",
          level |-> "independent challenge" ] ],
      [ pattern |-> <<"s","h","a","p","e","s","|","c","o","l","o","r","s","|","s","o","r","t","i","n","g","|","c","l","a","s","s","i","f","i","c","a","t","i","o","n">>,
        type |-> "advanced_academic",
        activity |-> [
          name |-> "Complex Shape Sorting Challenge",
          description |-> "Sort shapes by multiple attributes independently",
          materials |-> <<"Various shapes in multiple colors and sizes",
                          "Sorting mats",
                          "Recording sheet">>,
          steps |-> <<"Present shapes with 3 attributes: color, size, shape",
                      "Student creates own sorting rule",
                      "Student explains their sorting logic",
                      "Student records results on sheet",
                      "Student teaches sorting rule to peer">>,
          duration |-> "15-18 minutes",
          level |-> "independent challenge" ] ],
      [ pattern |-> <<"t","u","r","n","[","\\","s","\\","-","]","?","t","a","k","i","n","g","|","s","h","a","r","i","n","g","|","s","o","c","i","a","l"," ","s","k","i","l","l","s","|","p","e","e","r"," ","i","n","t","e","r","a","c","t","i","o","n","|","g","r","o","u","p"," ","w","o","r","k","|","t","e","a","c","h"," ","t","u","r","n","|","h","o","w"," ","d","o"," ","i"," ","t","e","a","c","h"," ","t","u","r","n">>,
        type |-> "advanced_social_skills",
        activity |-> [
          name |-> "Flexible Turn-Taking Leadership",
          description |-> "Lead turn-taking activities with peers and teach others",
          materials |-> <<"Multiple activities for choice",
                          "Turn-taking rule cards",
                          "Timer options",
                          "Peer group">>,
          steps |-> <<"Student chooses activity and explains rules to peers",
                      "Student demonstrates appropriate turn-taking language",
                      "Student helps peers negotiate turn length and order",
                      "Student models problem-solving when conflicts arise",
                      "Student leads reflection: 'How did our turn-taking go?'",
                      "Student teaches turn-taking strategies to younger students">>,
          duration |-> "20-25 minutes",
          level |-> "independent challenge" ] ] >>

\* EnhancedActivityGenerator._load_activity_rules
_load_activity_rules ==
  0 :> <<
      [ pattern |-> <<"t","a","n","t","r","u","m","|","m","e","l","t","d","o","w","n","|","m","a","r","a","h","|","m","e","n","a","n","g","i","s">>,
        type |-> "calming_sensory",
        activity |-> [
          name |-> "Deep Pressure Calm Down",
          description |-> "Use weighted lap pad and deep breathing with favorite stuffed animal",
          materials |-> <<"Weighted lap pad",
                          "Soft stuffed animal",
                          "Quiet space">>,
          steps |-> <<"Guide student to quiet corner with dim lighting",
                      "Place weighted lap pad on student's lap",
                      "Model slow breathing: 'Breathe in like smelling flowers, out like blowing bubbles'",
                      "Stay nearby but give space",
                      "Wait for student to signal readiness to return">>,
          duration |-> "5-10 minutes",
          level |-> "immediate support" ] ],
      [ pattern |-> <<"t","i","d","a","k"," ","b","i","s","a"," ","k","o","n","s","e","n","t","r","a","s","i","|","h","y","p","e","r","a","c","t","i","v","e","|","t","i","d","a","k"," ","f","o","k","u","s">>,
        type |-> "attention_regulation",
        activity |-> [
          name |-> "Focus Basket Activity",
          description |-> "Simple sorting task with immediate success",
          materials |-> <<"2 baskets",
                          "5 large colorful objects",
                          "Timer">>,
          steps |-> <<"Set timer for 2 minutes only",
                      "Show 2 baskets: red objects and blue objects",
                      "Start with just 3 objects total",
                      "Celebrate each correct placement immediately",
                      "Stop before student gets frustrated">>,
          duration |-> "2-3 minutes",
          level |-> "immediate support" ] ],
      [ pattern |-> <<"t","i","d","a","k"," ","m","a","u","|","m","e","n","o","l","a","k","|","a","g","g","r","e","s","s","i","v","e">>,
        type |-> "engagement_building",
        activity |-> [
          name |-> "Choice-Based Engagement",
          description |-> "Offer 2 simple choices to rebuild cooperation",
          materials |-> <<"2 preferred activities",
                          "Visual choice board">>,
          steps |-> <<"Present 2 choices visually: 'Do you want blocks or puzzles?'",
                      "Honor the choice immediately",
                      "Start with 1-minute activity",
                      "End on positive note before resistance builds",
                      "Gradually increase expectations">>,
          duration |-> "1-2 minutes",
          level |-> "immediate support" ] ] >>
  @@
  1 :> <<
      [ pattern |-> <<"b","a","n","t","u","|","b","a","n","t","u","a","n","|","d","e","n","g","a","n"," ","b","a","n","t","u","a","n","|","p","e","r","l","u"," ","b","a","n","t","u","a","n">>,
        type |-> "assisted_learning",
        activity |-> [
          name |-> "Hand-Over-Hand Number Matching",
          description |-> "Match number cards 1-3 with physical guidance",
          materials |-> <<"Large number cards 1-3",
                          "Matching objects",
                          "Visual supports">>,
          steps |-> <<"Place number card 1 on table",
                      "Guide student's hand to pick up 1 object",
                      "Help place object on number card",
                      "Say: 'One object on number one!'",
                      "Gradually reduce physical support",
                      "Celebrate each success immediately">>,
          duration |-> "5-8 minutes",
          level |-> "developing with support" ] ],
      [ pattern |-> <<"m","u","l","a","i"," ","m","e","m","a","h","a","m","i","|","s","e","d","i","k","i","t"," ","b","i","s","a","|","k","a","d","a","n","g"," ","b","i","s","a">>,
        type |-> "skill_building",
        activity |-> [
          name |-> "Pattern Building with Support",
          description |-> "Create simple AB patterns with guidance",
          materials |-> <<"2 colors of blocks",
                          "Pattern strip",
                          "Visual model">>,
          steps |-> <<"Show completed pattern: red-blue-red-blue",
                      "Start new pattern with student",
                      "Place first block: 'Red block first'",
                      "Guide student to place blue block",
                      "Continue with decreasing support",
                      "Let student complete last 2 blocks independently">>,
          duration |-> "6-8 minutes",
          level |-> "developing with support" ] ],
      [ pattern |-> <<"v","i","s","u","a","l","|","g","a","m","b","a","r","|","l","i","h","a","t">>,
        type |-> "visual_learning",
        activity |-> [
          name |-> "Picture-Word Matching",
          description |-> "Match pictures to simple words with visual supports",
          materials |-> <<"Picture cards",
                          "Word cards",
                          "Matching board">>,
          steps |-> <<"Start with 3 familiar objects: ball, car, book",
                      "Show picture of ball, point to word 'ball'",
                      "Help student match picture to word",
                      "Use finger to trace word while saying it",
                      "Gradually add more picture-word pairs">>,
          duration |-> "7-10 minutes",
          level |-> "developing with support" ] ] >>
  @@
  2 :> <<
      [ pattern |-> <<"m","a","n","d","i","r","i","|","s","e","n","d","i","r","i","|","b","i","s","a"," ","s","e","n","d","i","r","i","|","i","n","d","e","p","e","n","d","e","n","t">>,
        type |-> "independent_challenge",
        activity |-> [
          name |-> "Multi-Step Problem Solving",
          description |-> "Complete 4-step sequence independently",
          materials |-> <<"Complex puzzle",
                          "Multi-step instructions",
                          "Self-check list">>,
          steps |-> <<"Present 4-step visual instruction card",
                      "Student reads/interprets steps independently",
                      "Provide materials but minimal guidance",
                      "Student self-checks work against model",
                      "Encourage problem-solving when stuck">>,
          duration |-> "12-15 minutes",
          level |-> "independent challenge" ] ],
      [ pattern |-> <<"b","a","i","k","|","b","a","g","u","s","|","e","x","c","e","l","l","e","n","t","|","s","e","m","p","u","r","n","a">>,
        type |-> "extension_activity",
        activity |-> [
          name |-> "Creative Extension Challenge",
          description |-> "Apply learned skills in new creative way",
          materials |-> <<"Open-ended materials",
                          "Challenge card",
                          "Documentation tools">>,
          steps |-> <<"Present open-ended challenge: 'Create your own pattern using any materials'",
                      "Student chooses materials and approach",
                      "Student explains their thinking process",
                      "Student documents their creation",
                      "Student presents to others">>,
          duration |-> "15-20 minutes",
          level |-> "independent challenge" ] ],
      [ pattern |-> <<"s","i","a","p","|","r","e","a","d","y","|","n","e","x","t"," ","l","e","v","e","l","|","a","d","v","a","n","c","e","d">>,
        type |-> "advanced_skill",
        activity |-> [
          name |-> "Peer Collaboration Project",
          description |-> "Work with peer to complete complex task",
          materials |-> <<"Collaborative materials",
                          "Role cards",
                          "Project rubric">>,
          steps |-> <<"Assign complementary roles to each student",
                      "Students plan approach together",
                      "Students divide tasks and work collaboratively",
                      "Students check each other's work",
                      "Students present joint project">>,
          duration |-> "20-25 minutes",
          level |-> "independent challenge" ] ] >>

(***************************************************************************)
(* Activities in flight.  dict.copy() is shallow: a copied template keeps  *)
(* the very list objects of the rule table as its materials and steps.  A  *)
(* list is therefore a handle: either the list stored at rule `at` of the  *)
(* table (shared), or a list of its own.                                   *)
(***************************************************************************)
shared_list(label, k) == [shared |-> TRUE, at |-> <<label, k>>, list |-> <<>>]

\* a list that is no new object: the one kept with the first rule of label 1
stored_list(l) == [shared |-> TRUE, at |-> <<1, 1>>, list |-> l]

own_list(l) == [shared |-> FALSE, at |-> <<>>, list |-> l]

\* the elements of the list behind handle h, which is field `field` of an activity
list_of(rules, h, field) ==
  IF h.shared THEN rules[h.at[1]][h.at[2]].activity[field] ELSE h.list

\* list.append(item) on field `field` of the activity of st = [activity, rules]
list_append(st, field, item) ==
  LET h == st.activity[field]
  IN  IF h.shared
        THEN [st EXCEPT !.rules[h.at[1]][h.at[2]].activity[field] = Append(@, item)]
        ELSE [st EXCEPT !.activity[field].list = Append(@, item)]

\* activity_data['activity'].copy() followed by matched_activity['type'] = activity_data['type']
copy_of_template(label, k, activity_data) ==
  [ name |-> activity_data.activity.name,
    description |-> [for |-> <<>>, text |-> activity_data.activity.description],
    materials |-> shared_list(label, k),
    steps |-> shared_list(label, k),
    duration |-> activity_data.activity.duration,
    level |-> activity_data.activity.level,
    type |-> activity_data.type,
    age_note |-> <<>>,
    personalization |-> <<>> ]

\* a dict literal built inside the call: its lists are new objects
fresh_activity(d) ==
  [ name |-> d.name,
    description |-> [for |-> <<>>, text |-> d.description],
    materials |-> own_list(d.materials),
    steps |-> own_list(d.steps),
    duration |-> d.duration,
    level |-> d.level,
    type |-> d.type,
    age_note |-> <<>>,
    personalization |-> <<>> ]

\* what a reader of the activity sees at this moment
snapshot(rules, a) ==
  [ name |-> a.name,
    description |-> a.description,
    materials |-> list_of(rules, a.materials, "materials"),
    steps |-> list_of(rules, a.steps, "steps"),
    duration |-> a.duration,
    level |-> a.level,
    type |-> a.type,
    age_note |-> a.age_note,
    personalization |-> a.personalization,
    matched_keywords |-> a.matched_keywords,
    prediction_label |-> a.prediction_label ]

(***************************************************************************)
(* TeachSmartChatbot: defaults, personalizer, matcher                      *)
(***************************************************************************)
defaults ==
  0 :> [
      name |-> "Basic Calming Activity",
      description |-> "Simple sensory break to help student regulate",
      materials |-> <<"Quiet space",
                      "Preferred comfort item">>,
      steps |-> <<"Offer quiet space away from stimulation",
                  "Provide preferred comfort item",
                  "Use calm, quiet voice",
                  "Wait for student to self-regulate">>,
      duration |-> "5-10 minutes",
      level |-> "immediate support",
      type |-> "default_calming" ]
  @@
  1 :> [
      name |-> "Supported Learning Activity",
      description |-> "Simple task with adult guidance",
      materials |-> <<"Age-appropriate materials",
                      "Visual supports">>,
      steps |-> <<"Present simple, clear task",
                  "Provide visual and verbal prompts",
                  "Offer physical guidance as needed",
                  "Celebrate small successes">>,
      duration |-> "5-8 minutes",
      level |-> "developing with support",
      type |-> "default_supported" ]
  @@
  2 :> [
      name |-> "Independent Challenge",
      description |-> "Self-directed learning opportunity",
      materials |-> <<"Challenging but achievable materials">>,
      steps |-> <<"Present clear expectations",
                  "Allow independent problem-solving",
                  "Provide encouragement from distance",
                  "Celebrate achievement and effort">>,
      duration |-> "10-15 minutes",
      level |-> "independent challenge",
      type |-> "default_independent" ]

\* defaults[1] for every label
supported_default_for_every_label(label) == fresh_activity(defaults[1])

\* a lookup that falls back to the first default for an unknown label
calming_default_for_unknown_label(label) ==
  fresh_activity(IF label \in DOMAIN defaults THEN defaults[label] ELSE defaults[0])

\* defaults.get(label, defaults[1])
_get_default_activity_for_label(label) ==
  fresh_activity(IF label \in DOMAIN defaults THEN defaults[label] ELSE defaults[1])

Student == <<"S","t","u","d","e","n","t">>

\* "objects" in m, for the material strings of the tables
has_objects(m) == m \in {"5 large colorful objects", "Matching objects"}

\* m.replace("objects", "teddy bear counters")
replace_objects_in_material(m) ==
  CASE m = "5 large colorful objects" -> "5 large colorful teddy bear counters"
    [] m = "Matching objects" -> "Matching teddy bear counters"
    [] OTHER -> m

\* str.replace(old, new) on a character sequence
RECURSIVE replace(_, _, _)
replace(s, old, new) ==
  IF s = <<>> THEN <<>>
  ELSE IF occurs_at(s, old, 1)
    THEN new \o replace(SubSeq(s, Len(old) + 1, Len(s)), old, new)
    ELSE <<Head(s)>> \o replace(Tail(s), old, new)

\* description.replace("objects", "toy cars"): no description text of the tables
\* holds "objects", the student's name may
replace_objects_in_description(d) ==
  [d EXCEPT !.for = replace(@, <<"o","b","j","e","c","t","s">>,
                               <<"t","o","y"," ","c","a","r","s">>)]

\* '5-8' in duration, '2-3' in duration, for the duration strings of the tables
has_5_8(duration) == duration = "5-8 minutes"

has_2_3(duration) == duration = "2-3 minutes"

\* "counting" in name.lower(), for the names of the tables
has_counting(name) == name = "Counting Bears Adventure"

any_in(interests, words) == \E i \in 1..Len(interests) : interests[i] \in words

personalize_name(activity, student_name) ==
  IF student_name # <<>> /\ student_name # Student
    THEN [activity EXCEPT !.description.for = student_name]
    ELSE activity

personalize_age(activity, student_age) ==
  IF student_age < 4
    THEN [activity EXCEPT !.duration = "2-5 minutes",
                          !.age_note = <<"Shortened for younger student">>]
  ELSE IF student_age > 8
    THEN [activity EXCEPT !.duration = IF has_5_8(@) THEN "8-12 minutes"
                                       ELSE IF has_2_3(@) THEN "5-8 minutes"
                                       ELSE @,
                          !.age_note = <<"Extended for older student">>]
  ELSE activity

interest_bears(st, interests) ==
  LET materials == list_of(st.rules, st.activity.materials, "materials")
  IN  IF any_in(interests, {"bears", "teddy"})
         /\ \E i \in 1..Len(materials) : has_objects(materials[i])
        THEN [st EXCEPT !.activity.materials =
                own_list([i \in 1..Len(materials) |->
                            replace_objects_in_material(materials[i])])]
        ELSE st

interest_cars(st, interests) ==
  IF any_in(interests, {"cars", "vehicles"})
    THEN LET appended == list_append(st, "materials", "Toy cars for motivation")
         IN  IF appended.activity.name = "Focus Basket Activity"
               THEN [appended EXCEPT
                       !.activity.name = "Car Garage Sorting",
                       !.activity.description = replace_objects_in_description(@)]
               ELSE appended
    ELSE st

\* an injection that adds the animal material whatever the interests are
interest_anything(st, interests) ==
  list_append(st, "materials", "Animal figures or pictures")

interest_animals(st, interests) ==
  IF any_in(interests, {"animals", "pets"})
    THEN list_append(st, "materials", "Animal figures or pictures")
    ELSE st

interest_music(st, interests) ==
  IF any_in(interests, {"music", "songs"})
    THEN LET appended == list_append(st, "materials", "Background music or songs")
         IN  IF has_counting(appended.activity.name)
               THEN list_append(appended, "steps", "Sing counting songs together")
               ELSE appended
    ELSE st

\* the result is [activity |-> the personalized copy, rules |-> the table afterwards]
_personalize_activity(rules, activity, student_name, student_age, interests) ==
  LET personalized == personalize_age(personalize_name(activity, student_name),
                                      student_age)
      st == [activity |-> personalized, rules |-> rules]
  IN  IF interests # <<>>
        THEN LET noted == [st EXCEPT !.activity.personalization =
                             <<[student_name |-> student_name,
                                interest_text |-> interests]>>]
             IN  interest_music(
                   interest_animals(
                     interest_cars(
                       interest_bears(noted, interests), interests), interests),
                   interests)
        ELSE st

default_keywords == <<"d","e","f","a","u","l","t">>

\* a scan that keeps going after a match: the last matching rule wins
RECURSIVE last_match(_, _, _)
last_match(label_rules, note_text, k) ==
  IF k > Len(label_rules) THEN 0
  ELSE IF last_match(label_rules, note_text, k + 1) > 0
    THEN last_match(label_rules, note_text, k + 1)
  ELSE IF re_search(label_rules[k].pattern, note_text) THEN k
  ELSE 0

\* the for loop with its break: the index of the first rule whose pattern is
\* found in the note, 0 when the loop ends without a match
RECURSIVE first_match(_, _, _)
first_match(label_rules, note_text, k) ==
  IF k > Len(label_rules) THEN 0
  ELSE IF re_search(label_rules[k].pattern, note_text) THEN k
  ELSE first_match(label_rules, note_text, k + 1)

\* a lookup that finds no rules for any label
no_rules(rules, prediction_label) == <<>>

\* self.activity_rules.get(prediction_label, {})
rules_of(rules, prediction_label) ==
  IF prediction_label \in DOMAIN rules THEN rules[prediction_label] ELSE <<>>

\* lines 603-621: the matched template (or the default) before personalization
select_activity(rules, prediction_label, activity_note) ==
  LET label_rules == rules_of(rules, prediction_label)
      k == first_match(label_rules, lower(activity_note), 1)
  IN  IF k > 0
        THEN [activity |-> copy_of_template(prediction_label, k, label_rules[k]),
              matched_keywords |-> label_rules[k].pattern]
        ELSE [activity |-> _get_default_activity_for_label(prediction_label),
              matched_keywords |-> default_keywords]

\* a result that carries no label of its own: readers get the -1 they ask for
\* when the key is absent
without_label(activity, matched_keywords, prediction_label) ==
  [ name |-> activity.name,
    description |-> activity.description,
    materials |-> activity.materials,
    steps |-> activity.steps,
    duration |-> activity.duration,
    level |-> activity.level,
    type |-> activity.type,
    age_note |-> activity.age_note,
    personalization |-> activity.personalization,
    matched_keywords |-> matched_keywords,
    prediction_label |-> -1 ]

\* {**personalized_activity, 'matched_keywords': ..., 'prediction_label': ...}
with_provenance(activity, matched_keywords, prediction_label) ==
  [ name |-> activity.name,
    description |-> activity.description,
    materials |-> activity.materials,
    steps |-> activity.steps,
    duration |-> activity.duration,
    level |-> activity.level,
    type |-> activity.type,
    age_note |-> activity.age_note,
    personalization |-> activity.personalization,
    matched_keywords |-> matched_keywords,
    prediction_label |-> prediction_label ]

_find_matching_activity(rules, prediction_label, activity_note, student_name, student_age, interests) ==
  LET sel == select_activity(rules, prediction_label, activity_note)
      p == _personalize_activity(rules, sel.activity, student_name,
                                 student_age, interests)
  IN  [activity |-> with_provenance(p.activity, sel.matched_keywords,
                                    prediction_label),
       rules |-> p.rules]

(***************************************************************************)
(* EnhancedActivityGenerator: defaults, personalizer, matcher              *)
(***************************************************************************)
generator_defaults ==  0 :> [
      name |-> "Basic Calming Activity",
      description |-> "Simple sensory break to help student regulate",
      materials |-> <<"Quiet space",
                      "Preferred comfort item">>,
      steps |-> <<"Offer quiet space away from stimulation",
                  "Provide preferred comfort item",
                  "Use calm, quiet voice",
                  "Wait for student to self-regulate">>,
      duration |-> "5-10 minutes",
      level |-> "immediate support",
      type |-> "default_calming" ]
  @@
  1 :> [
      name |-> "Supported Learning Activity",
      description |-> "Simple task with adult guidance",
      materials |-> <<"Age-appropriate materials",
                      "Visual supports">>,
      steps |-> <<"Present simple, clear task",
                  "Provide visual and verbal prompts",
                  "Offer physical guidance as needed",
                  "Celebrate small successes">>,
      duration |-> "5-8 minutes",
      level |-> "developing with support",
      type |-> "default_supported" ]
  @@
  2 :> [
      name |-> "Independent Challenge",
      description |-> "Self-directed learning opportunity",
      materials |-> <<"Challenging but achievable materials">>,
      steps |-> <<"Present clear expectations",
                  "Allow independent problem-solving",
                  "Provide encouragement from distance",
                  "Celebrate achievement and effort">>,
      duration |-> "10-15 minutes",
      level |-> "independent challenge",
      type |-> "default_independent" ]

_get_default_activity(label) ==
  fresh_activity(IF label \in DOMAIN generator_defaults
                   THEN generator_defaults[label]
                   ELSE generator_defaults[1])

generator_personalize_age(activity, student_age) ==
  IF student_age < 4
    THEN [activity EXCEPT !.duration = "2-5 minutes",
                          !.age_note = <<"Shortened for younger student">>]
  ELSE IF student_age > 8
    THEN [activity EXCEPT !.age_note = <<"Extended for older student">>]
  ELSE activity

\* the if / elif / elif chain: only the first category found is applied
generator_interests(st, interests) ==
  IF any_in(interests, {"cars", "vehicles"})
    THEN list_append(st, "materials", "Toy cars for motivation")
  ELSE IF any_in(interests, {"animals", "pets"})
    THEN list_append(st, "materials", "Animal figures or pictures")
  ELSE IF any_in(interests, {"music", "songs"})
    THEN list_append(st, "materials", "Background music or songs")
  ELSE st

generator_personalize_activity(rules, activity, student_name, student_age, interests) ==
  LET personalized == generator_personalize_age(
                        personalize_name(activity, student_name), student_age)
      st == [activity |-> personalized, rules |-> rules]
  IN  IF interests # <<>>
        THEN generator_interests(
               [st EXCEPT !.activity.personalization =
                  <<[student_name |-> student_name, interest_text |-> interests]>>],
               interests)
        ELSE st

generator_select_activity(rules, label, activity_note) ==
  LET label_rules == rules_of(rules, label)
      k == first_match(label_rules, lower(activity_note), 1)
  IN  IF k > 0
        THEN [activity |-> copy_of_template(label, k, label_rules[k]),
              matched_keywords |-> label_rules[k].pattern]
        ELSE [activity |-> _get_default_activity(label),
              matched_keywords |-> default_keywords]

_generate_specific_activity(rules, label, activity_note, student_name, student_age, interests) ==
  LET sel == generator_select_activity(rules, label, activity_note)
      p == generator_personalize_activity(rules, sel.activity, student_name,
                                          student_age, interests)
  IN  [activity |-> with_provenance(p.activity, sel.matched_keywords, label),
       rules |-> p.rules]

(***************************************************************************)
(* Intent detection and request parsing (TeachSmartChatbot)                *)
(***************************************************************************)
any_keyword_in(text, keywords) ==
  \E i \in 1..Len(keywords) : contains(text, keywords[i])

activity_keywords ==
  << <<"a","c","t","i","v","i","t","i","e","s">>, <<"a","c","t","i","v","i","t","y">>, <<"k","e","g","i","a","t","a","n">>, <<"l","a","t","i","h","a","n">>,
     <<"w","h","a","t"," ","c","a","n"," ","i"," ","d","o">>, <<"h","o","w"," ","c","a","n"," ","i"," ","h","e","l","p">>, <<"s","u","g","g","e","s","t","i","o","n","s">>,
     <<"i","d","e","a","s">>, <<"s","t","r","a","t","e","g","i","e","s">>, <<"e","x","e","r","c","i","s","e","s">>,
     <<"h","o","w"," ","d","o"," ","i"," ","t","e","a","c","h">>, <<"h","o","w"," ","t","o"," ","t","e","a","c","h">>, <<"t","e","a","c","h","i","n","g">>,
     <<"t","u","r","n","-","t","a","k","i","n","g">>, <<"t","u","r","n"," ","t","a","k","i","n","g">>, <<"s","h","a","r","i","n","g">>, <<"s","o","c","i","a","l"," ","s","k","i","l","l","s">> >>

_is_activity_request(aet_target) ==
  any_keyword_in(lower(aet_target), activity_keywords)

\* the words of the greeting patterns, in the order of the list
greeting_words ==
  << <<"h","e","l","l","o">>, <<"h","i">>, <<"h","e","y">>, <<"g","o","o","d"," ","m","o","r","n","i","n","g">>, <<"g","o","o","d"," ","a","f","t","e","r","n","o","o","n">>,
     <<"g","o","o","d"," ","e","v","e","n","i","n","g">>, <<"h","a","l","o">>, <<"h","a","i">> >>

all_in(s, chars) == \A i \in 1..Len(s) : s[i] \in chars

\* \s*[!.?]*$ matches all of s ($ also matches before one final newline)
greeting_tail(s) ==
  LET body(t) == \E k \in 0..Len(t) :
                   /\ all_in(SubSeq(t, 1, k), Whitespace)
                   /\ all_in(SubSeq(t, k + 1, Len(t)), {"!", ".", "?"})
  IN  \/ body(s)
      \/ s # <<>> /\ s[Len(s)] = "\n" /\ body(SubSeq(s, 1, Len(s) - 1))

\* (hello|hi|...)\s*[!.?]*$ matches s from index i
greeting_from(s, i) ==
  \E w \in 1..Len(greeting_words) :
    /\ occurs_at(s, greeting_words[w], i)
    /\ greeting_tail(SubSeq(s, i + Len(greeting_words[w]), Len(s)))

\* \s*(hello|hi|...)\s*[!.?]*$ matches s from index i
spaces_then_greeting(s, i) ==
  \E k \in 0..(Len(s) - i + 1) :
    /\ all_in(SubSeq(s, i, i + k - 1), Whitespace)
    /\ greeting_from(s, i + k)

teacher_question == <<"t","e","a","c","h","e","r"," ","q","u","e","s","t","i","o","n",":">>

for_student == <<"f","o","r"," ","s","t","u","d","e","n","t"," ">>

_is_greeting(aet_target) ==
  LET target_lower == strip(lower(aet_target))
  IN  \/ greeting_from(target_lower, 1)
      \/ /\ occurs_at(target_lower, teacher_question, 1)
         /\ spaces_then_greeting(target_lower, Len(teacher_question) + 1)
      \/ /\ occurs_at(target_lower, for_student, 1)
         /\ \E c \in (Len(for_student) + 2)..Len(target_lower) :
              /\ target_lower[c] = ":"
              /\ \A m \in (Len(for_student) + 1)..(c - 1) : target_lower[m] # "\n"
              /\ spaces_then_greeting(target_lower, c + 1)

\* the index of the last character of the longest run of characters of `chars`
\* that starts at index i (i - 1 when the run is empty)
RECURSIVE run_end(_, _, _)
run_end(s, i, chars) ==
  IF i <= Len(s) /\ s[i] \in chars THEN run_end(s, i + 1, chars) ELSE i - 1

\* [A-Z][a-z]+ at index i: the index of its last character, 0 when it does not match
name_end(s, i) ==
  IF i <= Len(s) /\ s[i] \in UpperCaseLetters
       /\ run_end(s, i + 1, LowerCaseLetters) >= i + 1
    THEN run_end(s, i + 1, LowerCaseLetters)
    ELSE 0

\* (?:for|student)\s+([A-Z][a-z]+) matches at index i; group 1 starts at the result
name_after_for(s, i) ==
  LET after(w) == IF occurs_at(s, w, i) THEN i + Len(w) ELSE 0
      a == IF after(<<"f","o","r">>) > 0 THEN after(<<"f","o","r">>) ELSE after(<<"s","t","u","d","e","n","t">>)
      n == run_end(s, a, Whitespace) + 1
  IN  IF a > 0 /\ n > a /\ name_end(s, n) > 0 THEN n ELSE 0

\* ([A-Z][a-z]+)\s+(?:will|can|needs) matches at index i
name_before_verb(s, i) ==
  LET e == name_end(s, i)
      v == run_end(s, e + 1, Whitespace) + 1
  IN  /\ e > 0
      /\ v > e + 1
      /\ \/ occurs_at(s, <<"w","i","l","l">>, v)
         \/ occurs_at(s, <<"c","a","n">>, v)
         \/ occurs_at(s, <<"n","e","e","d","s">>, v)

\* ([A-Z][a-z]+)\s+\d+\s*\( matches at index i
name_before_number(s, i) ==
  LET e == name_end(s, i)
      d == run_end(s, e + 1, Whitespace) + 1
      p == run_end(s, run_end(s, d, Digits) + 1, Whitespace) + 1
  IN  /\ e > 0
      /\ d > e + 1
      /\ run_end(s, d, Digits) >= d
      /\ p <= Len(s)
      /\ s[p] = "("

\* the leftmost of the positions where a pattern matches, 0 when there is none
leftmost(positions) ==
  IF positions = {} THEN 0
  ELSE CHOOSE i \in positions : \A j \in positions : i <= j

_extract_student_name(text) ==
  LET i1 == leftmost({i \in 1..Len(text) : name_after_for(text, i) > 0})
      i2 == leftmost({i \in 1..Len(text) : name_before_verb(text, i)})
      i3 == leftmost({i \in 1..Len(text) : name_before_number(text, i)})
  IN  IF i1 > 0
        THEN SubSeq(text, name_after_for(text, i1),
                    name_end(text, name_after_for(text, i1)))
      ELSE IF i2 > 0 THEN SubSeq(text, i2, name_end(text, i2))
      ELSE IF i3 > 0 THEN SubSeq(text, i3, name_end(text, i3))
      ELSE Student

\* interest_keywords, in dict order
interest_keywords ==
  << [interest |-> "bears", keywords |-> <<<<"b","e","a","r">>, <<"t","e","d","d","y">>, <<"b","e","a","r","s">>>>],
     [interest |-> "cars", keywords |-> <<<<"c","a","r">>, <<"v","e","h","i","c","l","e">>, <<"t","r","u","c","k">>, <<"c","a","r","s">>>>],
     [interest |-> "animals",
      keywords |-> <<<<"a","n","i","m","a","l">>, <<"p","e","t">>, <<"d","o","g">>, <<"c","a","t">>, <<"a","n","i","m","a","l","s">>>>],
     [interest |-> "music", keywords |-> <<<<"m","u","s","i","c">>, <<"s","o","n","g">>, <<"s","i","n","g","i","n","g">>, <<"s","o","n","g","s">>>>],
     [interest |-> "colors",
      keywords |-> <<<<"c","o","l","o","r">>, <<"c","o","l","o","r","f","u","l">>, <<"r","a","i","n","b","o","w">>, <<"c","o","l","o","r","s">>>>],
     [interest |-> "blocks", keywords |-> <<<<"b","l","o","c","k">>, <<"b","u","i","l","d","i","n","g">>, <<"l","e","g","o">>, <<"b","l","o","c","k","s">>>>],
     [interest |-> "books", keywords |-> <<<<"b","o","o","k">>, <<"s","t","o","r","y">>, <<"r","e","a","d","i","n","g">>, <<"b","o","o","k","s">>>>],
     [interest |-> "art", keywords |-> <<<<"a","r","t">>, <<"d","r","a","w","i","n","g">>, <<"p","a","i","n","t","i","n","g">>, <<"c","r","a","f","t">>>>] >>

RECURSIVE found_interests(_, _)
found_interests(text_lower, k) ==
  IF k > Len(interest_keywords) THEN <<>>
  ELSE (IF any_keyword_in(text_lower, interest_keywords[k].keywords)
          THEN <<interest_keywords[k].interest>>
          ELSE <<>>)
       \o found_interests(text_lower, k + 1)

_extract_interests(text) == found_interests(lower(text), 1)

salah == <<"s","a","l","a","h">>

benar == <<"b","e","n","a","r">>

assessment(value_1, value_2, value_3, activity_note) ==
  [value_1 |-> value_1, value_2 |-> value_2, value_3 |-> value_3,
   activity_note |-> activity_note]

\* a variant that hands the request text to the matcher as the note
note_from_request(ability_level, aet_target) ==
  assessment(benar, salah, benar, aet_target)

_create_sample_assessment(ability_level, aet_target) ==
  LET target_lower == lower(aet_target)
  IN  IF any_keyword_in(target_lower,
                        <<<<"t","a","n","t","r","u","m">>, <<"m","e","l","t","d","o","w","n">>, <<"c","r","y","i","n","g">>, <<"u","p","s","e","t">>>>)
        THEN assessment(salah, salah, benar,
               <<"a","n","a","k"," ","t","a","n","t","r","u","m"," ","d","a","n"," ","t","i","d","a","k"," ","b","i","s","a"," ","k","o","n","s","e","n","t","r","a","s","i">>)
      ELSE IF any_keyword_in(target_lower,
                <<<<"t","u","r","n","-","t","a","k","i","n","g">>, <<"t","u","r","n"," ","t","a","k","i","n","g">>, <<"s","h","a","r","i","n","g">>,
                  <<"s","o","c","i","a","l"," ","s","k","i","l","l","s">>, <<"p","e","e","r"," ","i","n","t","e","r","a","c","t","i","o","n">>>>)
        THEN IF ability_level = "emerging"
               THEN assessment(salah, salah, benar,
                      <<"s","t","u","d","e","n","t"," ","n","e","e","d","s"," ","h","e","l","p"," ","w","i","t","h"," ","t","u","r","n","-","t","a","k","i","n","g"," ","a","n","d"," ","s","h","a","r","i","n","g"," ","a","c","t","i","v","i","t","i","e","s">>)
             ELSE IF ability_level = "extending"
               THEN assessment(benar, benar, benar,
                      <<"s","t","u","d","e","n","t"," ","r","e","a","d","y"," ","f","o","r"," ","a","d","v","a","n","c","e","d"," ","t","u","r","n","-","t","a","k","i","n","g"," ","a","n","d"," ","p","e","e","r"," ","i","n","t","e","r","a","c","t","i","o","n"," ","c","h","a","l","l","e","n","g","e","s">>)
             ELSE assessment(benar, salah, benar,
                      <<"s","t","u","d","e","n","t"," ","l","e","a","r","n","i","n","g"," ","t","u","r","n","-","t","a","k","i","n","g"," ","w","i","t","h"," ","v","i","s","u","a","l"," ","s","u","p","p","o","r","t","s"," ","a","n","d"," ","s","h","a","r","i","n","g"," ","a","c","t","i","v","i","t","i","e","s">>)
      ELSE IF any_keyword_in(target_lower,
                <<<<"h","e","l","p">>, <<"s","u","p","p","o","r","t">>, <<"a","s","s","i","s","t","a","n","c","e">>, <<"b","a","n","t","u">>>>)
        THEN assessment(benar, salah, benar,
               <<"a","n","a","k"," ","m","e","m","b","u","t","u","h","k","a","n"," ","b","a","n","t","u","a","n"," ","u","n","t","u","k"," ","m","e","m","a","h","a","m","i"," ","i","n","s","t","r","u","k","s","i">>)
      ELSE IF any_keyword_in(target_lower,
                <<<<"i","n","d","e","p","e","n","d","e","n","t">>, <<"a","d","v","a","n","c","e","d">>, <<"r","e","a","d","y">>, <<"m","a","n","d","i","r","i">>>>)
        THEN assessment(benar, benar, benar,
               <<"a","n","a","k"," ","d","a","p","a","t"," ","m","e","n","g","i","k","u","t","i"," ","i","n","s","t","r","u","k","s","i"," ","d","e","n","g","a","n"," ","b","a","i","k"," ","d","a","n"," ","m","a","n","d","i","r","i">>)
      ELSE IF ability_level = "emerging"
        THEN assessment(salah, salah, benar,
               <<"a","n","a","k"," ","m","e","m","b","u","t","u","h","k","a","n"," ","b","a","n","t","u","a","n"," ","e","k","s","t","r","a"," ","u","n","t","u","k"," ","m","e","m","a","h","a","m","i">>)
      ELSE IF ability_level = "extending"
        THEN assessment(benar, benar, benar,
               <<"a","n","a","k"," ","s","i","a","p"," ","u","n","t","u","k"," ","t","a","n","t","a","n","g","a","n"," ","y","a","n","g"," ","l","e","b","i","h"," ","k","o","m","p","l","e","k","s">>)
      ELSE assessment(benar, salah, benar,
               <<"a","n","a","k"," ","m","u","l","a","i"," ","m","e","m","a","h","a","m","i"," ","d","e","n","g","a","n"," ","b","a","n","t","u","a","n"," ","v","i","s","u","a","l">>)

(***************************************************************************)
(* Classification adapter (AutismTherapyPredictor)                         *)
(*                                                                         *)
(* The vectorizer and the classifier are external: one inference is a      *)
(* value `out` = [prediction, probabilities] that the environment chooses. *)
(* Probabilities are in thousandths.  A call of the model has an outcome:  *)
(* it returns a value or raises an exception; `trace` lists, in order, the *)
(* functions it invoked.                                                   *)
(***************************************************************************)
returns(value, trace) == [outcome |-> "return", value |-> value, trace |-> trace]

raises(exception, trace) ==
  [outcome |-> "raise", exception |-> exception, trace |-> trace]

\* 1 if value.lower() == 'benar' else 0.5 if 'bantu' in value.lower() else 0, in tenths
ordinal(value) ==
  IF lower(value) = benar THEN 10
  ELSE IF contains(lower(value), <<"b","a","n","t","u">>) THEN 5
  ELSE 0

\* a feature vector with the first two ordinals exchanged
exchanged_features(value_1, value_2, value_3, activity_note) ==
  <<ordinal(value_2), ordinal(value_1), ordinal(value_3),
    [vectorized |-> activity_note]>>

\* np.hstack([value_features, text_features]): the three ordinals first
feature_vector(value_1, value_2, value_3, activity_note) ==
  <<ordinal(value_1), ordinal(value_2), ordinal(value_3),
    [vectorized |-> activity_note]>>

condition_names ==
  0 :> "Struggling - Needs Immediate Support"
  @@
  1 :> "Progressing - Needs Continued Support"
  @@
  2 :> "Thriving - Ready for Next Level"

\* model_data['advice_map'], with the three entries the tests give it
advice_map ==
  0 :> "Provide immediate support and calming strategies"
  @@
  1 :> "Continue with guided practice and visual supports"
  @@
  2 :> "Ready for more challenging independent activities"

\* max(probabilities), for a non-empty list
max_of(probabilities) ==
  CHOOSE p \in Range(probabilities) : \A r \in Range(probabilities) : r <= p

model_trace == <<"vectorizer.transform", "classifier.predict", "classifier.predict_proba">>

\* a variant without the guard of lines 38-39: the attribute lookup fails
unguarded_predict_student_condition(loaded, out, value_1, value_2, value_3, activity_note) ==
  IF ~loaded THEN raises("AttributeError", <<>>)
  ELSE IF out.prediction \notin DOMAIN condition_names
         \/ out.prediction \notin DOMAIN advice_map
    THEN raises("KeyError", model_trace)
  ELSE raises("ValueError", model_trace)

predict_student_condition(loaded, out, value_1, value_2, value_3, activity_note) ==
  IF ~loaded THEN returns([error |-> "Model not loaded"], <<>>)
  ELSE IF out.prediction \notin DOMAIN condition_names
    THEN raises("KeyError", model_trace)
  ELSE IF out.prediction \notin DOMAIN advice_map
    THEN raises("KeyError", model_trace)
  ELSE IF out.probabilities = <<>>
    THEN raises("ValueError", model_trace)
  ELSE returns(
         [ label |-> out.prediction,
           condition |-> condition_names[out.prediction],
           advice |-> advice_map[out.prediction],
           confidence |-> max_of(out.probabilities),
           probabilities |->
             [ struggling |-> out.probabilities[1],
               needs_support |-> IF Len(out.probabilities) > 1
                                   THEN out.probabilities[2] ELSE 0,
               doing_well |-> IF Len(out.probabilities) > 2
                                THEN out.probabilities[3] ELSE 0 ] ],
         model_trace)

\* dict.get(key, default)
get(d, key, default) == IF key \in DOMAIN d THEN d[key] ELSE default

\* TeachSmartChatbot.predict_student_progress
progress_of(r) ==
  IF r.outcome = "raise"
    THEN returns([success |-> FALSE, error |-> r.exception],
                 <<"predict_student_condition">> \o r.trace)
    ELSE returns([success |-> TRUE, prediction |-> r.value],
                 <<"predict_student_condition">> \o r.trace)

predict_student_progress(loaded, out, assessment_data) ==
  IF ~loaded
    THEN returns([success |-> FALSE, error |-> "Trained model not available"], <<>>)
    ELSE progress_of(predict_student_condition(loaded, out,
                       get(assessment_data, "value_1", salah),
                       get(assessment_data, "value_2", salah),
                       get(assessment_data, "value_3", salah),
                       get(assessment_data, "activity_note", <<>>)))

(***************************************************************************)
(* Content.  A rendered document is the sequence of its sections; a fixed  *)
(* block of text is a section that holds its heading only.                 *)
(***************************************************************************)
\* str.title(), for the three ability levels
title(ability_level) ==
  CASE ability_level = "emerging" -> "Emerging"
    [] ability_level = "developing" -> "Developing"
    [] ability_level = "extending" -> "Extending"
    [] OTHER -> ability_level

\* enumerate(items, 1)
numbered(items) == [i \in 1..Len(items) |-> <<i, items[i]>>]

\* the format specification .0% applied to thousandths: whole percent (no value
\* of the model lies halfway between two)
percent_0(thousandths) == (thousandths + 5) \div 10

\* the format specification .1%
percent_1(thousandths) == <<thousandths \div 10, thousandths % 10>>

\* `activity` is the dict as the renderer reads it: snapshot(rules, activity)
_format_mapped_activity_response(activity, prediction_result, aet_target, student_age, ability_level) ==
  << [ section |-> "Learning Resource",
       objective |-> aet_target,
       student_age |-> student_age,
       ability_level |-> title(ability_level),
       duration |-> activity.duration ],
     [ section |-> "Recommended Activity",
       name |-> activity.name,
       description |-> activity.description ],
     [ section |-> "Materials Required", items |-> numbered(activity.materials) ],
     [ section |-> "Implementation Steps", items |-> numbered(activity.steps) ] >>
  \o (IF activity.personalization # <<>>
        THEN << [ section |-> "Personalization Notes",
                  note |-> activity.personalization[1] ] >>
        ELSE <<>>)
  \o << [ section |-> "Assessment Criteria" ],
        [ section |-> "Differentiation Options" ],
        [ section |-> "AI Model Assessment",
          condition |-> prediction_result.condition,
          confidence |-> percent_0(prediction_result.confidence),
          advice |-> prediction_result.advice ] >>

_meltdown_content == << [ section |-> "Meltdown Management: Professional Guidelines" ] >>

_focus_content == << [ section |-> "Attention and Focus: Educational Strategies" ] >>

\* a generator of templated content that produces nothing
no_content(student_age, aet_target, ability_level) == <<>>

_generate_content(student_age, aet_target, ability_level) ==
  LET target_lower == lower(aet_target)
  IN  IF any_keyword_in(target_lower, <<<<"m","e","l","t","d","o","w","n">>, <<"t","a","n","t","r","u","m">>>>)
        THEN _meltdown_content
      ELSE IF any_keyword_in(target_lower,
                <<<<"f","o","c","u","s">>, <<"a","t","t","e","n","t","i","o","n">>, <<"c","o","n","c","e","n","t","r","a","t","e">>>>)
        THEN _focus_content
      ELSE << [ section |-> "Learning Resource",
                objective |-> aet_target,
                student_age |-> student_age,
                ability_level |-> title(ability_level) ],
              [ section |-> "Learning Objective", objective |-> aet_target ],
              [ section |-> "Implementation Activities" ],
              [ section |-> "Assessment Guidelines" ],
              [ section |-> "Implementation Notes" ] >>

\* the sample assessment _add_model_insights builds from the ability level
insights_assessment(ability_level) ==
  IF ability_level = "emerging"
    THEN assessment(salah, salah, benar,
           <<"a","n","a","k"," ","m","e","m","b","u","t","u","h","k","a","n"," ","b","a","n","t","u","a","n"," ","e","k","s","t","r","a"," ","u","n","t","u","k"," ","m","e","m","a","h","a","m","i"," ","i","n","s","t","r","u","k","s","i">>)
  ELSE IF ability_level = "extending"
    THEN assessment(benar, benar, benar,
           <<"a","n","a","k"," ","d","a","p","a","t"," ","m","e","n","g","i","k","u","t","i"," ","i","n","s","t","r","u","k","s","i"," ","d","e","n","g","a","n"," ","b","a","i","k"," ","d","a","n"," ","m","a","n","d","i","r","i">>)
  ELSE assessment(benar, salah, benar,
           <<"a","n","a","k"," ","m","u","l","a","i"," ","m","e","m","a","h","a","m","i"," ","d","e","n","g","a","n"," ","b","a","n","t","u","a","n"," ","v","i","s","u","a","l">>)

\* a variant that reports the insights unavailable without asking the model
insights_without_classifier(loaded, out, ability_level) ==
  returns(<< [ section |-> "AI Model Insights",
               note |-> "Model insights unavailable for this request." ] >>,
          <<"predict_student_progress">>)

\* the text the insights add for the result r of predict_student_progress
insights_of(r) ==
  IF r.value.success
    THEN returns(
           << [ section |-> "AI Model Insights",
                condition |-> r.value.prediction.condition,
                confidence |-> percent_1(r.value.prediction.confidence),
                advice |-> r.value.prediction.advice,
                struggling |-> percent_1(r.value.prediction.probabilities.struggling),
                needs_support |->
                  percent_1(r.value.prediction.probabilities.needs_support),
                doing_well |->
                  percent_1(r.value.prediction.probabilities.doing_well) ] >>,
           <<"predict_student_progress">> \o r.trace)
    ELSE returns(
           << [ section |-> "AI Model Insights",
                note |-> "Model insights unavailable for this request." ] >>,
           <<"predict_student_progress">> \o r.trace)

\* the value is the text appended to the content
_add_model_insights(loaded, out, ability_level) ==
  insights_of(predict_student_progress(loaded, out, insights_assessment(ability_level)))

(***************************************************************************)
(* Rule-based activities (the path taken without a usable prediction)      *)
(***************************************************************************)
in_list(interests, word) == \E i \in 1..Len(interests) : interests[i] = word

_get_math_activities(age, level, interests) ==
  IF in_list(interests, "bears")
    THEN << [ name |-> "Counting Bears Adventure",
              description |-> [text |-> "Use teddy bear counters in favorite colors"],
              materials |-> <<"Teddy bear counters", "Ice cube trays", "Number cards 1-10">>,
              steps |-> <<"Start with 5 colorful teddy bears",
                          "Show how to place one bear in each ice cube compartment",
                          "Count together: \"One bear, two bears, three bears...\"",
                          "Let student try with 3 bears first, then build up",
                          "Sing counting songs while placing bears">>,
              duration |-> "5-8 minutes" ] >>
    ELSE << [ name |-> "Counting Practice",
              description |-> [text |-> "Practice counting objects appropriate for age {age}",
                               age |-> age],
              materials |-> <<"Objects to count", "Number cards">>,
              steps |-> <<"Start with 3-5 objects",
                          "Demonstrate one-to-one correspondence",
                          "Count together slowly",
                          "Let student try independently",
                          "Gradually increase number of objects">>,
              duration |-> "5-8 minutes" ] >>

_get_sorting_activities(age, level, interests) ==
  IF in_list(interests, "cars")
    THEN << [ name |-> "Car Garage Sorting",
              description |-> [text |-> "Sort toy cars by color and size into garages"],
              materials |-> <<"Toy cars in different colors", "Small boxes as garages",
                              "Labels">>,
              steps |-> <<"Set up 4 \"garages\" (boxes) with color labels",
                          "Start with 2 colors only",
                          "Show: \"Red cars go in the red garage\"",
                          "Let student touch and explore each car",
                          "Gradually add more colors and sizes">>,
              duration |-> "6-10 minutes" ] >>
    ELSE << [ name |-> "Shape and Color Sorting",
              description |-> [text |-> "Sort shapes by attributes"],
              materials |-> <<"Foam shapes", "Sorting containers", "Visual labels">>,
              steps |-> <<"Start with 2 shapes and 2 colors",
                          "Demonstrate sorting by one attribute",
                          "Let student practice with guidance",
                          "Gradually increase complexity",
                          "Celebrate successful sorting">>,
              duration |-> "5-8 minutes" ] >>

_get_communication_activities(age, level, interests) ==
  << [ name |-> "Following Instructions Practice",
       description |-> [text |-> "Practice following 1-2 step instructions"],
       materials |-> <<"Visual instruction cards", "Simple objects", "Reward system">>,
       steps |-> <<"Start with 1-step instructions",
                   "Use visual supports with words",
                   "Give clear, simple directions",
                   "Wait for completion before next step",
                   "Celebrate successful following">>,
       duration |-> "5-10 minutes" ] >>

_get_calming_activities(age, level, interests) ==
  << [ name |-> "Calm Down Strategies",
       description |-> [text |-> "Practice self-regulation techniques"],
       materials |-> <<"Quiet space", "Comfort items", "Visual cues">>,
       steps |-> <<"Create designated calm space",
                   "Teach deep breathing with visual cues",
                   "Offer comfort items or fidgets",
                   "Practice when student is calm first",
                   "Use during actual upset moments">>,
       duration |-> "3-10 minutes as needed" ] >>

_get_general_activities(age, level, interests) ==
  << [ name |-> "Skill Building Activity",
       description |-> [text |-> "Age-appropriate activity for {age}-year-old at {level} level",
                        age |-> age, level |-> level],
       materials |-> <<"Age-appropriate materials", "Visual supports">>,
       steps |-> <<"Present clear, simple task",
                   "Provide appropriate level of support",
                   "Break into manageable steps",
                   "Celebrate progress and effort",
                   "Adjust difficulty as needed">>,
       duration |-> "5-10 minutes" ] >>

\* `created` is datetime.now()
_format_activities_as_content(activities, aet_target, student_age, ability_level, created) ==
  << [ section |-> "Learning Activities",
       objective |-> aet_target,
       created |-> created,
       student_age |-> student_age,
       ability_level |-> title(ability_level) ],
     [ section |-> "Learning Objective", objective |-> aet_target ] >>
  \o [ i \in 1..Len(activities) |->
       [ section |-> "Activity",
         number |-> i,
         name |-> activities[i].name,
         description |-> activities[i].description,
         materials |-> activities[i].materials,
         duration |-> activities[i].duration,
         steps |-> numbered(activities[i].steps) ] ]
  \o << [ section |-> "Differentiation", ability_level |-> title(ability_level) ],
        [ section |-> "Assessment" ],
        [ section |-> "Teacher Notes" ],
        [ section |-> "Generated by TeachSmart Trained Model" ] >>

\* a variant that refuses instead of building activities
fail_without_model(loaded, aet_target, student_age, ability_level, interests, now) ==
  [success |-> FALSE, error |-> "Model not loaded", timestamp |-> now]

\* `now` is datetime.now(): the header's date and the timestamp are read within
\* the same instant of the model's clock
_generate_rule_based_activities(loaded, aet_target, student_age, ability_level, interests, now) ==
  LET target_lower == lower(aet_target)
      activities ==
        IF any_keyword_in(target_lower, <<<<"c","o","u","n","t">>, <<"n","u","m","b","e","r">>, <<"m","a","t","h">>>>)
          THEN _get_math_activities(student_age, ability_level, interests)
        ELSE IF any_keyword_in(target_lower, <<<<"s","h","a","p","e">>, <<"c","o","l","o","r">>, <<"s","o","r","t">>>>)
          THEN _get_sorting_activities(student_age, ability_level, interests)
        ELSE IF any_keyword_in(target_lower,
                  <<<<"c","o","m","m","u","n","i","c","a","t","i","o","n">>, <<"t","a","l","k">>, <<"s","p","e","a","k">>>>)
          THEN _get_communication_activities(student_age, ability_level, interests)
        ELSE IF any_keyword_in(target_lower, <<<<"c","a","l","m">>, <<"t","a","n","t","r","u","m">>, <<"u","p","s","e","t">>>>)
          THEN _get_calming_activities(student_age, ability_level, interests)
        ELSE _get_general_activities(student_age, ability_level, interests)
  IN  [ success |-> TRUE,
        content |-> _format_activities_as_content(activities, aet_target,
                      student_age, ability_level, now),
        timestamp |-> now,
        metadata |-> [ student_age |-> student_age,
                       aet_target |-> aet_target,
                       ability_level |-> ability_level,
                       format_type |-> "specific_activities",
                       model_available |-> loaded ] ]

(***************************************************************************)
(* TeachSmartChatbot.generate_learning_resource                            *)
(***************************************************************************)
greeting_responses ==
  << "Hello! How can I assist you today?",
     "Hi there! I'm here to help you create educational resources for students with autism. What would you like to work on?",
     "Good day! I'm TeachSmart, your AI assistant for autism-friendly educational content. How can I help you today?",
     "Hello! I'm ready to help you create personalized learning activities. What's your teaching goal today?",
     "Hi! I'm here to support you with autism-friendly educational resources. What can I help you with?" >>

\* a variant that answers a greeting with a text of its own
greeting_outside_the_list(choice, now) ==
  [ success |-> TRUE,
    content |-> "Hello!",
    timestamp |-> now,
    metadata |-> [ response_type |-> "greeting",
                   provider |-> "TeachSmart Trained Model" ] ]

\* `choice` is the index random.choice draws
_generate_greeting_response(choice, now) ==
  [ success |-> TRUE,
    content |-> greeting_responses[choice],
    timestamp |-> now,
    metadata |-> [ response_type |-> "greeting",
                   provider |-> "TeachSmart Trained Model" ] ]

\* the value is [response, rules]: the response and the rule table afterwards
handled(response, rules, trace) ==
  returns([response |-> response, rules |-> rules], trace)

rule_based(rules, loaded, aet_target, student_age, ability_level, interests, now, trace) ==
  handled(_generate_rule_based_activities(loaded, aet_target, student_age,
            ability_level, interests, now),
          rules, trace \o <<"_generate_rule_based_activities">>)

\* lines 813-830: the response for the matched activity m = [activity, rules]
mapped_activity(m, activity, prediction_result, now, aet_target, student_age, ability_level, trace) ==
  handled(
    [ success |-> TRUE,
      content |-> _format_mapped_activity_response(activity, prediction_result,
                    aet_target, student_age, ability_level),
      timestamp |-> now,
      metadata |-> [ student_age |-> student_age,
                     aet_target |-> aet_target,
                     ability_level |-> ability_level,
                     format_type |-> "mapped_activity",
                     model_available |-> TRUE,
                     activity_type |-> activity.type,
                     prediction_label |-> activity.prediction_label ] ],
    m.rules,
    trace \o <<"_find_matching_activity", "_personalize_activity",
               "_format_mapped_activity_response">>)

matched(m, prediction_result, now, aet_target, student_age, ability_level, trace) ==
  mapped_activity(m, snapshot(m.rules, m.activity), prediction_result, now,
                  aet_target, student_age, ability_level, trace)

\* lines 795-833: the try block, for the outcome p of the classification
classified(p, rules, loaded, now, aet_target, student_age, ability_level, assessment_data, student_name, interests, trace) ==
  IF p.outcome = "raise"
    THEN rule_based(rules, loaded, aet_target, student_age, ability_level, interests,
                    now, trace \o p.trace)
    ELSE matched(_find_matching_activity(rules, p.value.label,
                   assessment_data.activity_note, student_name, student_age,
                   interests),
                 p.value, now, aet_target, student_age, ability_level,
                 trace \o p.trace)

extracted(rules, loaded, out, now, aet_target, student_age, ability_level, assessment_data, student_name, interests, trace) ==
  IF loaded
    THEN classified(predict_student_condition(loaded, out, assessment_data.value_1,
                      assessment_data.value_2, assessment_data.value_3,
                      assessment_data.activity_note),
                    rules, loaded, now, aet_target, student_age, ability_level,
                    assessment_data, student_name, interests,
                    trace \o <<"predict_student_condition">>)
    ELSE rule_based(rules, loaded, aet_target, student_age, ability_level, interests,
                    now, trace)

_generate_specific_activity_response(rules, loaded, out, now, aet_target, student_age, ability_level) ==
  extracted(rules, loaded, out, now, aet_target, student_age, ability_level,
            _create_sample_assessment(ability_level, aet_target),
            _extract_student_name(aet_target), _extract_interests(aet_target),
            <<"_extract_student_name", "_extract_interests",
              "_create_sample_assessment">>)

\* lines 118-129: the response of the templated path
templated(content, insights, rules, loaded, now, student_age, aet_target, ability_level, format_type) ==
  handled(
    [ success |-> TRUE,
      content |-> content \o insights.value,
      timestamp |-> now,
      metadata |-> [ student_age |-> student_age,
                     aet_target |-> aet_target,
                     ability_level |-> ability_level,
                     format_type |-> format_type,
                     model_available |-> loaded ] ],
    rules,
    <<"_is_greeting", "time.sleep", "_is_activity_request", "_generate_content">>
      \o insights.trace)

\* the functions a call invoked, after those its caller invoked before it
after(trace, r) == [r EXCEPT !.trace = trace \o @]

generate_learning_resource(rules, loaded, out, choice, now, student_age, aet_target, ability_level, format_type) ==
  IF _is_greeting(aet_target)
    THEN handled(_generate_greeting_response(choice, now), rules,
                 <<"_is_greeting", "_generate_greeting_response">>)
  ELSE IF _is_activity_request(aet_target)
    THEN after(<<"_is_greeting", "time.sleep", "_is_activity_request",
                 "_generate_specific_activity_response">>,
               _generate_specific_activity_response(rules, loaded, out, now,
                 aet_target, student_age, ability_level))
  ELSE templated(_generate_content(student_age, aet_target, ability_level),
                 IF loaded
                   THEN after(<<"_add_model_insights">>,
                              _add_model_insights(loaded, out, ability_level))
                   ELSE returns(<<>>, <<>>),
                 rules, loaded, now, student_age, aet_target, ability_level,
                 format_type)

(***************************************************************************)
(* EnhancedActivityGenerator.predict_and_generate_activity                 *)
(***************************************************************************)
\* the whole body is inside try/except: an exception becomes an error result
_predict_condition(out, value_1, value_2, value_3, activity_note) ==
  IF out.prediction \notin DOMAIN condition_names
    THEN returns([error |-> <<"Prediction failed: ", "KeyError">>], model_trace)
  ELSE IF out.prediction \notin DOMAIN advice_map
    THEN returns([error |-> <<"Prediction failed: ", "KeyError">>], model_trace)
  ELSE IF out.probabilities = <<>>
    THEN returns([error |-> <<"Prediction failed: ", "ValueError">>], model_trace)
  ELSE returns(
         [ label |-> out.prediction,
           condition |-> condition_names[out.prediction],
           advice |-> advice_map[out.prediction],
           confidence |-> max_of(out.probabilities),
           probabilities |->
             [ struggling |-> out.probabilities[1],
               needs_support |-> IF Len(out.probabilities) > 1
                                   THEN out.probabilities[2] ELSE 0,
               doing_well |-> IF Len(out.probabilities) > 2
                                THEN out.probabilities[3] ELSE 0 ] ],
         model_trace)

\* lines 218-237: the result for the prediction and the generated activity g
generated(g, prediction, now, student_name, student_age, interests, trace) ==
  handled(
    [ success |-> TRUE,
      prediction |-> prediction,
      activity |-> snapshot(g.rules, g.activity),
      generated_at |-> now,
      student_info |-> [ name |-> student_name,
                         age |-> student_age,
                         interests |-> interests ] ],
    g.rules,
    trace \o <<"_generate_specific_activity">>)

predicted(p, rules, now, activity_note, student_name, student_age, interests) ==
  IF "error" \in DOMAIN p.value
    THEN handled(p.value, rules, <<"_predict_condition">> \o p.trace)
    ELSE generated(_generate_specific_activity(rules, p.value.label, activity_note,
                     student_name, student_age, interests),
                   p.value, now, student_name, student_age, interests,
                   <<"_predict_condition">> \o p.trace)

\* the value is [response, rules]
predict_and_generate_activity(rules, loaded, out, now, value_1, value_2, value_3, activity_note, student_name, student_age, interests) ==
  IF ~loaded THEN handled([error |-> "Model not loaded"], rules, <<>>)
  ELSE predicted(_predict_condition(out, value_1, value_2, value_3, activity_note),
                 rules, now, activity_note, student_name, student_age, interests)

(***************************************************************************)
(* State                                                                   *)
(***************************************************************************)
VARIABLES
  chatbot,            \* chatbot_server.chatbot: which object the global holds
  is_loaded,          \* TeachSmartChatbot.predictor.is_loaded
  activity_rules,     \* TeachSmartChatbot.activity_rules
  generator_loaded,   \* EnhancedActivityGenerator.is_loaded
  generator_rules,    \* EnhancedActivityGenerator.activity_rules
  call,               \* the call in progress or just finished, on the sequential paths
  personalized        \* how many calls with interests were accepted so far

vars == <<chatbot, is_loaded, activity_rules, generator_loaded, generator_rules,
          call, personalized>>

\* how many calls that carry interests a run may hold
MaxPersonalized == 1

\* the attribute does not exist: __init__ left the try block before assigning it
NoAttribute == <<>>

Idle == [status |-> "idle"]

\* The chatbot builds its rule table whether or not the model loads (lines 84-87);
\* the generator builds its own only after a successful load (lines 20-35).
Init ==
  /\ chatbot = "TeachSmartChatbot"
  /\ is_loaded \in BOOLEAN
  /\ activity_rules = _load_activity_mapping_rules
  /\ generator_loaded \in BOOLEAN
  /\ generator_rules = IF generator_loaded THEN _load_activity_rules ELSE NoAttribute
  /\ call = Idle
  /\ personalized = 0

(***************************************************************************)
(* Direct calls of the two matchers, as the tests make them                *)
(***************************************************************************)
MatcherLabels == {0, 1, 2, 3}

MatcherNotes ==
  { <<"a","n","a","k"," ","t","a","n","t","r","u","m"," ","d","a","n"," ","t","i","d","a","k"," ","b","i","s","a"," ","k","o","n","s","e","n","t","r","a","s","i">>,
    <<"c","h","i","l","d"," ","n","e","e","d","s"," ","h","e","l","p"," ","w","i","t","h"," ","C","o","u","n","t","i","n","g"," ","n","u","m","b","e","r","s">>,
    <<"a","n","a","k"," ","d","a","p","a","t"," ","b","e","k","e","r","j","a"," ","m","a","n","d","i","r","i"," ","d","a","n"," ","s","i","a","p"," ","t","a","n","t","a","n","g","a","n">>,
    <<"a","n","a","k"," ","m","u","l","a","i"," ","m","e","m","a","h","a","m","i"," ","d","e","n","g","a","n"," ","b","a","n","t","u","a","n"," ","v","i","s","u","a","l">>,
    <<"A","n","a","k"," ","S","e","d","a","n","g"," ","B","e","l","a","j","a","r">> }

MatcherNames == {Student, <<"A","m","a","r","a">>}

MatcherAges == {3, 9}

MatcherInterests == {<<>>, <<"cars", "music">>}

MatcherCalls ==
  [ op : {"_find_matching_activity", "_generate_specific_activity"},
    label : MatcherLabels,
    activity_note : MatcherNotes,
    student_name : MatcherNames,
    student_age : MatcherAges,
    interests : MatcherInterests ]

pending(c) ==
  [status |-> "pending", op |-> c.op, args |-> c]

done(result) ==
  [status |-> "done", op |-> call.op, args |-> call.args, result |-> result]

\* the answer of the classifier, if the call consulted it
consulted(trace, out) ==
  IF \E i \in 1..Len(trace) : trace[i] = "classifier.predict" THEN <<out>> ELSE <<>>

\* the call in progress ends with outcome r: what it returned or raised, the
\* functions it invoked on the way, and what the classifier answered
finished(r, result, out) ==
  [status |-> "done", op |-> call.op, args |-> call.args, outcome |-> r.outcome,
   result |-> result, trace |-> r.trace, inference |-> consulted(r.trace, out)]

InvokeMatcher ==
  \E c \in MatcherCalls :
    /\ call.status = "idle"
    /\ c.op = "_generate_specific_activity" => generator_loaded
    /\ c.interests # <<>> => personalized < MaxPersonalized
    /\ personalized' = IF c.interests # <<>> THEN personalized + 1 ELSE personalized
    /\ call' = pending(c)
    /\ UNCHANGED <<chatbot, is_loaded, activity_rules, generator_loaded, generator_rules>>

FindMatchingActivity ==
  /\ call.status = "pending"
  /\ call.op = "_find_matching_activity"
  /\ LET a == call.args
         r == _find_matching_activity(activity_rules, a.label, a.activity_note,
                a.student_name, a.student_age, a.interests)
     IN  /\ activity_rules' = r.rules
         /\ call' = done(snapshot(r.rules, r.activity))
  /\ UNCHANGED <<chatbot, is_loaded, generator_loaded, generator_rules, personalized>>

GenerateSpecificActivity ==
  /\ call.status = "pending"
  /\ call.op = "_generate_specific_activity"
  /\ LET a == call.args
         r == _generate_specific_activity(generator_rules, a.label, a.activity_note,
                a.student_name, a.student_age, a.interests)
     IN  /\ generator_rules' = r.rules
         /\ call' = done(snapshot(r.rules, r.activity))
  /\ UNCHANGED <<chatbot, is_loaded, activity_rules, generator_loaded, personalized>>

\* the caller takes the result; the next call may start
Return ==
  /\ call.status = "done"
  /\ call' = Idle
  /\ UNCHANGED <<chatbot, is_loaded, activity_rules, generator_loaded, generator_rules,
                 personalized>>

NextMatcher ==
  \/ InvokeMatcher
  \/ FindMatchingActivity
  \/ GenerateSpecificActivity
  \/ Return

SpecMatcher == Init /\ [][NextMatcher]_vars

(***************************************************************************)
(* The environment: what the classifier answers and what the clock reads   *)
(***************************************************************************)
\* classifier.predict(X)[0] with classifier.predict_proba(X)[0], in thousandths:
\* the three answers of the tests' predictor, a label outside {0,1,2}, vectors
\* of zero, one and two probabilities, and a label that is not the most probable
ClassifierOutputs ==
  { [prediction |-> 0, probabilities |-> <<704, 196, 100>>],
    [prediction |-> 1, probabilities |-> <<196, 604, 200>>],
    [prediction |-> 2, probabilities |-> <<100, 196, 704>>],
    [prediction |-> 3, probabilities |-> <<100, 196, 704>>],
    [prediction |-> 1, probabilities |-> <<>>],
    [prediction |-> 0, probabilities |-> <<1000>>],
    [prediction |-> 1, probabilities |-> <<396, 604>>],
    [prediction |-> 0, probabilities |-> <<196, 604, 200>>] }

\* no classifier attribute exists when the model did not load
NoClassifier == <<>>

inferences(loaded, outputs) == IF loaded THEN outputs ELSE {NoClassifier}

\* the answers the server's requests are checked against: those with a full
\* vector of probabilities or none
ServerOutputs == {out \in ClassifierOutputs : Len(out.probabilities) \in {0, 3}}

\* the latest reading of the clock a run may see
MaxClock == 2

\* datetime.now(), read while the response is built
Clock == 1..MaxClock

(***************************************************************************)
(* The server: one chatbot, requests served one after another              *)
(***************************************************************************)
RequestTexts ==
  { <<"H","e","l","l","o","!">>,
    <<"f","o","r"," ","s","t","u","d","e","n","t"," ","t","e","a","c","h","i","n","g",":"," ","h","i">>,
    <<"a","c","t","i","v","i","t","i","e","s"," ","f","o","r"," ","A","m","a","r","a"," ","w","h","o"," ","l","o","v","e","s"," ","c","a","r","s"," ","a","n","d"," ","i","s"," ","h","a","v","i","n","g"," ","t","a","n","t","r","u","m","s">>,
    <<"c","o","u","n","t","i","n","g"," ","a","c","t","i","v","i","t","i","e","s"," ","f","o","r"," ","M","a","r","c","u","s"," ","w","h","o"," ","n","e","e","d","s"," ","h","e","l","p"," ","w","i","t","h"," ","n","u","m","b","e","r","s">>,
    <<"h","o","w"," ","d","o"," ","i"," ","t","e","a","c","h"," ","t","u","r","n","-","t","a","k","i","n","g"," ","w","i","t","h"," ","m","u","s","i","c">>,
    <<"s","u","g","g","e","s","t","i","o","n","s">>,
    <<"f","o","c","u","s"," ","a","n","d"," ","a","t","t","e","n","t","i","o","n">>,
    <<"m","e","l","t","d","o","w","n">>,
    <<"h","e","l","l","o"," ","t","h","e","r","e">>,
    <<"c","h","a","l","l","e","n","g","i","n","g"," ","a","c","t","i","v","i","t","i","e","s"," ","f","o","r"," ","Z","a","r","a"," ","w","h","o"," ","i","s"," ","r","e","a","d","y"," ","f","o","r"," ","n","e","x","t"," ","l","e","v","e","l">> }

RequestAges == {3, 9}

AbilityLevels == {"emerging", "developing", "extending"}

Requests ==
  [ op : {"generate_learning_resource"},
    student_age : RequestAges,
    aet_target : RequestTexts,
    ability_level : AbilityLevels,
    format_type : {"worksheet"} ]

\* random.choice(greeting_responses) is drawn only on the greeting path
choices(aet_target) ==
  IF _is_greeting(aet_target) THEN 1..Len(greeting_responses) ELSE {0}

\* the server process constructs the chatbot only
InitServer ==
  /\ Init
  /\ ~generator_loaded

ReceiveRequest ==
  \E c \in Requests :
    LET interests == _extract_interests(c.aet_target)
    IN  /\ call.status = "idle"
        /\ interests # <<>> => personalized < MaxPersonalized
        /\ personalized' = IF interests # <<>> THEN personalized + 1 ELSE personalized
        /\ call' = pending(c)
        /\ UNCHANGED <<chatbot, is_loaded, activity_rules, generator_loaded, generator_rules>>

GenerateLearningResource ==
  /\ call.status = "pending"
  /\ call.op = "generate_learning_resource"
  /\ \E out \in inferences(is_loaded, ServerOutputs), choice \in choices(call.args.aet_target), now \in Clock :
       \E r \in { generate_learning_resource(activity_rules, is_loaded, out, choice,
                     now, call.args.student_age, call.args.aet_target,
                     call.args.ability_level, call.args.format_type) } :
         /\ activity_rules' = r.value.rules
         /\ call' = finished(r, r.value.response, out)
  /\ UNCHANGED <<chatbot, is_loaded, generator_loaded, generator_rules, personalized>>

Next ==
  \/ ReceiveRequest
  \/ GenerateLearningResource
  \/ Return

Spec == InitServer /\ [][Next]_vars

(***************************************************************************)
(* Direct calls of the classification entry points                         *)
(***************************************************************************)
Assessments ==
  { assessment(salah, salah, benar, <<"a","n","a","k"," ","t","a","n","t","r","u","m"," ","d","a","n"," ","t","i","d","a","k"," ","b","i","s","a"," ","k","o","n","s","e","n","t","r","a","s","i">>),
    assessment(benar, <<"D","i","b","a","n","t","u">>, <<"B","E","N","A","R">>, <<"a","n","a","k"," ","m","u","l","a","i"," ","m","e","m","a","h","a","m","i"," ","d","e","n","g","a","n"," ","b","a","n","t","u","a","n"," ","v","i","s","u","a","l">>),
    assessment(benar, benar, benar, <<"a","n","a","k"," ","d","a","p","a","t"," ","b","e","k","e","r","j","a"," ","m","a","n","d","i","r","i">>),
    assessment(<<"m","a","y","b","e">>, <<"B","A","N","T","U">>, <<"b","e","n","a","r"," ">>, <<"a","n","a","k"," ","s","e","d","a","n","g"," ","b","e","l","a","j","a","r">>) }

\* a dict that lacks every key, for predict_student_progress
EmptyAssessment == <<>>

ClassificationCalls ==
  [ op : {"predict_student_condition", "predict_and_generate_activity"},
    assessment_data : Assessments,
    student_name : MatcherNames,
    student_age : MatcherAges,
    interests : MatcherInterests ]
  \cup
  [ op : {"predict_student_progress"},
    assessment_data : Assessments \cup {EmptyAssessment},
    student_name : {Student},
    student_age : {5},
    interests : {<<>>} ]

\* X, the argument of classifier.predict and classifier.predict_proba, when the
\* call on assessment_data reached the classifier
features_given(trace, assessment_data) ==
  IF \E i \in 1..Len(trace) : trace[i] = "classifier.predict"
    THEN << feature_vector(get(assessment_data, "value_1", salah),
                           get(assessment_data, "value_2", salah),
                           get(assessment_data, "value_3", salah),
                           get(assessment_data, "activity_note", <<>>)) >>
    ELSE <<>>

\* the finished call c, with the features its classifier was given
observed(c, features) == c @@ [features |-> features]

InvokeClassification ==
  \E c \in ClassificationCalls :
    /\ call.status = "idle"
    /\ c.op = "predict_student_condition"
         => (c.student_name = Student /\ c.student_age = 3 /\ c.interests = <<>>)
    /\ c.interests # <<>> => personalized < MaxPersonalized
    /\ personalized' = IF c.interests # <<>> THEN personalized + 1 ELSE personalized
    /\ call' = pending(c)
    /\ UNCHANGED <<chatbot, is_loaded, activity_rules, generator_loaded, generator_rules>>

PredictStudentCondition ==
  /\ call.status = "pending"
  /\ call.op = "predict_student_condition"
  /\ \E out \in inferences(is_loaded, ClassifierOutputs) :
       \E r \in { predict_student_condition(is_loaded, out,
                     call.args.assessment_data.value_1,
                     call.args.assessment_data.value_2,
                     call.args.assessment_data.value_3,
                     call.args.assessment_data.activity_note) } :
         call' = observed(finished(r, IF r.outcome = "raise" THEN r.exception ELSE r.value, out),
                          features_given(r.trace, call.args.assessment_data))
  /\ UNCHANGED <<chatbot, is_loaded, activity_rules, generator_loaded, generator_rules,
                 personalized>>

PredictStudentProgress ==
  /\ call.status = "pending"
  /\ call.op = "predict_student_progress"
  /\ \E out \in inferences(is_loaded, ClassifierOutputs) :
       \E r \in { predict_student_progress(is_loaded, out,
                                            call.args.assessment_data) } :
         call' = observed(finished(r, r.value, out),
                          features_given(r.trace, call.args.assessment_data))
  /\ UNCHANGED <<chatbot, is_loaded, activity_rules, generator_loaded, generator_rules,
                 personalized>>

PredictAndGenerateActivity ==
  /\ call.status = "pending"
  /\ call.op = "predict_and_generate_activity"
  /\ \E out \in inferences(generator_loaded, ClassifierOutputs), now \in Clock :
       \E r \in { predict_and_generate_activity(generator_rules, generator_loaded,
                     out, now, call.args.assessment_data.value_1,
                     call.args.assessment_data.value_2,
                     call.args.assessment_data.value_3,
                     call.args.assessment_data.activity_note,
                     call.args.student_name, call.args.student_age,
                     call.args.interests) } :
         /\ generator_rules' = r.value.rules
         /\ call' = observed(finished(r, r.value.response, out),
                             features_given(r.trace, call.args.assessment_data))
  /\ UNCHANGED <<chatbot, is_loaded, activity_rules, generator_loaded, personalized>>

NextClassify ==
  \/ InvokeClassification
  \/ PredictStudentCondition
  \/ PredictStudentProgress
  \/ PredictAndGenerateActivity
  \/ Return

SpecClassify == Init /\ [][NextClassify]_vars

(***************************************************************************)
(* The server under load: Flask serves each request on a thread of its own *)
(* and every thread calls the one chatbot (chatbot_server.py lines 45-46,  *)
(* 94-127).  In this specification `call` holds one call per thread.  A    *)
(* step of a thread is atomic up to and including its one access to the    *)
(* rule table; the steps between two accesses work on the thread's locals. *)
(***************************************************************************)
Threads == {"t1", "t2"}

ConcurrentTexts ==
  { <<"a","c","t","i","v","i","t","i","e","s"," ","f","o","r"," ","A","m","a","r","a"," ","w","h","o"," ","l","o","v","e","s"," ","c","a","r","s"," ","a","n","d"," ","i","s"," ","h","a","v","i","n","g"," ","t","a","n","t","r","u","m","s">>,
    <<"h","o","w"," ","d","o"," ","i"," ","t","e","a","c","h"," ","t","u","r","n","-","t","a","k","i","n","g"," ","w","i","t","h"," ","m","u","s","i","c">>,
    <<"s","u","g","g","e","s","t","i","o","n","s">> }

ConcurrentRequests ==
  [ op : {"generate_learning_resource"},
    student_age : {9},
    aet_target : ConcurrentTexts,
    ability_level : {"developing"},
    format_type : {"worksheet"} ]

\* a classifier that is safe for concurrent use answers each thread by itself
ConcurrentOutputs ==
  {out \in ClassifierOutputs :
     Len(out.probabilities) = 3 /\ out.prediction \in DOMAIN condition_names}

InitConcurrent ==
  /\ chatbot = "TeachSmartChatbot"
  /\ is_loaded = TRUE
  /\ activity_rules = _load_activity_mapping_rules
  /\ generator_loaded = FALSE
  /\ generator_rules = NoAttribute
  /\ call = [t \in Threads |-> Idle]
  /\ personalized = 0

\* generate_resource hands the request to chatbot.generate_learning_resource
Accept(t) ==
  \E c \in ConcurrentRequests :
    /\ call[t].status = "idle"
    /\ call' = [call EXCEPT ![t] = [status |-> "classify", op |-> c.op, args |-> c]]
    /\ UNCHANGED <<chatbot, is_loaded, activity_rules, generator_loaded, generator_rules,
                   personalized>>

\* lines 97-108 and 786-802: the greeting check, the sleep, the routing, the
\* extraction and the classification touch nothing that is shared
Classify(t) ==
  /\ call[t].status = "classify"
  /\ ~_is_greeting(call[t].args.aet_target)
  /\ _is_activity_request(call[t].args.aet_target)
  /\ \E out \in inferences(is_loaded, ConcurrentOutputs) :
       LET a == call[t].args
           assessment_data == _create_sample_assessment(a.ability_level, a.aet_target)
           p == predict_student_condition(is_loaded, out, assessment_data.value_1,
                  assessment_data.value_2, assessment_data.value_3,
                  assessment_data.activity_note)
       IN  /\ p.outcome = "return"
           /\ call' = [call EXCEPT ![t] =
                [ status |-> "match", op |-> a.op, args |-> a, inference |-> out,
                  prediction_result |-> p.value,
                  activity_note |-> assessment_data.activity_note,
                  student_name |-> _extract_student_name(a.aet_target),
                  interests |-> _extract_interests(a.aet_target) ]]
  /\ UNCHANGED <<chatbot, is_loaded, activity_rules, generator_loaded, generator_rules,
                 personalized>>

\* the thread's call with its local `activity` and its next position
at(t, status, activity) ==
  [call EXCEPT ![t] = [status |-> status, op |-> call[t].op, args |-> call[t].args,
                       inference |-> call[t].inference,
                       prediction_result |-> call[t].prediction_result,
                       activity_note |-> call[t].activity_note,
                       student_name |-> call[t].student_name,
                       interests |-> call[t].interests,
                       activity |-> activity]]

\* lines 603-621 and 684-703: the table is scanned and the matched template
\* copied (its lists stay the table's); name, age and the personalization note
\* change the copy only
Match(t) ==
  /\ call[t].status = "match"
  /\ LET c == call[t]
         sel == select_activity(activity_rules, c.prediction_result.label,
                                c.activity_note)
         aged == personalize_age(personalize_name(sel.activity, c.student_name),
                                 c.args.student_age)
         noted == IF c.interests # <<>>
                    THEN [aged EXCEPT !.personalization =
                            <<[student_name |-> c.student_name,
                               interest_text |-> c.interests]>>]
                    ELSE aged
     IN  call' = at(t, IF c.interests # <<>> THEN "bears" ELSE "render",
                    with_provenance(noted, sel.matched_keywords,
                                    c.prediction_result.label))
  /\ UNCHANGED <<chatbot, is_loaded, activity_rules, generator_loaded, generator_rules,
                 personalized>>

local_state(t) == [activity |-> call[t].activity, rules |-> activity_rules]

\* lines 709-725, one interest block at a time: each reads or appends to the
\* lists of the copy, which are the table's for a matched template
Bears(t) ==
  /\ call[t].status = "bears"
  /\ LET st == interest_bears(local_state(t), call[t].interests)
     IN  /\ call' = at(t, "cars", st.activity)
         /\ activity_rules' = st.rules
  /\ UNCHANGED <<chatbot, is_loaded, generator_loaded, generator_rules, personalized>>

Cars(t) ==
  /\ call[t].status = "cars"
  /\ LET st == interest_cars(local_state(t), call[t].interests)
     IN  /\ call' = at(t, "animals", st.activity)
         /\ activity_rules' = st.rules
  /\ UNCHANGED <<chatbot, is_loaded, generator_loaded, generator_rules, personalized>>

Animals(t) ==
  /\ call[t].status = "animals"
  /\ LET st == interest_animals(local_state(t), call[t].interests)
     IN  /\ call' = at(t, "music", st.activity)
         /\ activity_rules' = st.rules
  /\ UNCHANGED <<chatbot, is_loaded, generator_loaded, generator_rules, personalized>>

Music(t) ==
  /\ call[t].status = "music"
  /\ LET st == interest_music(local_state(t), call[t].interests)
     IN  /\ call' = at(t, "render", st.activity)
         /\ activity_rules' = st.rules
  /\ UNCHANGED <<chatbot, is_loaded, generator_loaded, generator_rules, personalized>>

\* lines 830-897: the renderer reads the lists of the activity as they are now
Render(t) ==
  /\ call[t].status = "render"
  /\ \E now \in Clock :
       LET c == call[t]
           activity == snapshot(activity_rules, c.activity)
       IN  call' = [call EXCEPT ![t] =
             [ status |-> "done", op |-> c.op, args |-> c.args,
               inference |-> c.inference, now |-> now,
               result |->
                 [ success |-> TRUE,
                   content |-> _format_mapped_activity_response(activity,
                                 c.prediction_result, c.args.aet_target,
                                 c.args.student_age, c.args.ability_level),
                   timestamp |-> now,
                   metadata |-> [ student_age |-> c.args.student_age,
                                  aet_target |-> c.args.aet_target,
                                  ability_level |-> c.args.ability_level,
                                  format_type |-> "mapped_activity",
                                  model_available |-> TRUE,
                                  activity_type |-> activity.type,
                                  prediction_label |-> activity.prediction_label ] ] ]]
  /\ UNCHANGED <<chatbot, is_loaded, activity_rules, generator_loaded, generator_rules,
                 personalized>>

NextConcurrent ==
  \E t \in Threads :
    \/ Accept(t)
    \/ Classify(t)
    \/ Match(t)
    \/ Bears(t)
    \/ Cars(t)
    \/ Animals(t)
    \/ Music(t)
    \/ Render(t)

SpecConcurrent == InitConcurrent /\ [][NextConcurrent]_vars

(***************************************************************************)
(* chatbot_server.py: the routes.  The global chatbot is None until         *)
(* load_chatbot assigns it; a route answers jsonify(payload) with a status. *)
(* A JSON value that a handler inspects is tagged with its type.            *)
(***************************************************************************)
\* request.get_json(): no object (null), a body that does not parse, or an object
HttpBodies ==
  { [json |-> "null"],
    [json |-> "malformed"],
    [json |-> "object", fields |-> <<>>],
    [json |-> "object", fields |-> [aet_target |-> [number |-> 5]]],
    [json |-> "object", fields |-> [aet_target |-> [string |-> <<"H","e","l","l","o","!">>]]],
    [json |-> "object",
     fields |-> [aetTarget |-> [string |-> <<"m","e","l","t","d","o","w","n">>], studentAge |-> 3]],
    [json |-> "object",
     fields |-> [aet_target |-> [string |-> <<"s","u","g","g","e","s","t","i","o","n","s">>], student_age |-> 9,
                 ability_level |-> "emerging", format |-> "visual_schedule"]],
    [json |-> "object", fields |-> [value_1 |-> [number |-> 5]]],
    [json |-> "object",
     fields |-> [value_1 |-> [string |-> benar], value_2 |-> [string |-> <<"D","i","b","a","n","t","u">>],
                 activity_note |-> [string |-> <<"a","n","a","k"," ","m","u","l","a","i"," ","m","e","m","a","h","a","m","i">>]]] }

Routes == {"/generate-resource", "/predict-student", "/get-aet-targets"}

\* return jsonify(payload), status
respond(payload, status, rules, trace) ==
  returns([response |-> [payload |-> payload, status |-> status], rules |-> rules], trace)

\* a handler for exceptions that answers without the text of the error
server_error_without_text(message, rules, trace) ==
  respond([success |-> FALSE], 500, rules, trace)

\* except Exception as e: ... 'error': f'Server error: {str(e)}' ... 500
server_error(message, rules, trace) ==
  respond([success |-> FALSE, error |-> "Server error: " \o message], 500, rules, trace)

not_loaded(status, rules) ==
  respond([success |-> FALSE, error |-> "Chatbot model not loaded"], status, rules, <<>>)

\* TeachSmartChatbot.format_resource
format_resource(resource_data) ==
  IF ~get(resource_data, "success", FALSE)
    THEN "Error: Unable to format resource"
  ELSE IF get(get(resource_data, "metadata", <<>>), "format_type", "") = "mapped_activity"
    THEN get(resource_data, "content", "")
  ELSE [ heading |-> "Learning Resource",
         created |-> get(resource_data, "timestamp", "Unknown"),
         student_age |-> get(get(resource_data, "metadata", <<>>), "student_age", "Not specified"),
         ability_level |-> get(get(resource_data, "metadata", <<>>), "ability_level", "Not specified"),
         body |-> get(resource_data, "content", ""),
         footer |-> "Generated by TeachSmart AI Model" ]

\* lines 109-116: the parameters of the request, with their defaults
student_age_of(data) == get(data, "student_age", get(data, "studentAge", 8))

aet_target_of(data) == get(data, "aet_target", get(data, "aetTarget", [string |-> <<>>]))

ability_level_of(data) == get(data, "ability_level", get(data, "abilityLevel", "developing"))

format_of(data) == get(data, "format", "worksheet")

\* lines 131-152: the answer for the resource r the chatbot returned
resource_response(r, data) ==
  IF get(r.value.response, "success", FALSE)
    THEN respond([ success |-> TRUE,
                   content |-> format_resource(r.value.response),
                   metadata |-> [ generatedAt |-> get(r.value.response, "timestamp", "None"),
                                  targetAge |-> student_age_of(data),
                                  abilityLevel |-> ability_level_of(data),
                                  format |-> format_of(data),
                                  aetTarget |-> aet_target_of(data).string,
                                  provider |-> "Trained Chatbot Model" ] ],
                 200, r.value.rules,
                 <<"generate_learning_resource">> \o r.trace \o <<"format_resource">>)
    ELSE respond([ success |-> FALSE,
                   error |-> get(r.value.response, "error", "Unknown error occurred") ],
                 400, r.value.rules, <<"generate_learning_resource">> \o r.trace)

\* POST /generate-resource
generate_resource(kind, rules, loaded, out, choice, now, body) ==
  IF kind = "None"
    THEN not_loaded(500, rules)
  ELSE IF body.json = "malformed"
    THEN server_error("400 Bad Request", rules, <<>>)
  ELSE IF body.json = "null"
    THEN server_error("'NoneType' object has no attribute 'get'", rules, <<>>)
  ELSE IF kind = "dict"
    THEN server_error("'dict' object has no attribute 'generate_learning_resource'",
                      rules, <<>>)
  ELSE IF "string" \notin DOMAIN aet_target_of(body.fields)
    THEN server_error("'int' object has no attribute 'lower'", rules,
                      <<"generate_learning_resource", "_is_greeting">>)
  ELSE resource_response(
         generate_learning_resource(rules, loaded, out, choice, now,
           student_age_of(body.fields), aet_target_of(body.fields).string,
           ability_level_of(body.fields), format_of(body.fields)),
         body.fields)

\* the values of an assessment that arrived as JSON
json_values(data) == {get(data, key, [string |-> salah]) : key \in {"value_1", "value_2", "value_3"}}

\* chatbot.predict_student_progress(data) for the JSON the request carried
predict_student_progress_json(loaded, out, body) ==
  IF ~loaded
    THEN returns([success |-> FALSE, error |-> "Trained model not available"], <<>>)
  ELSE IF body.json = "null"
    THEN returns([success |-> FALSE, error |-> "'NoneType' object has no attribute 'get'"],
                 <<>>)
  ELSE IF \E v \in json_values(body.fields) : "string" \notin DOMAIN v
    THEN returns([success |-> FALSE, error |-> "'int' object has no attribute 'lower'"],
                 <<"predict_student_condition">>)
  ELSE predict_student_progress(loaded, out,
         [ value_1 |-> get(body.fields, "value_1", [string |-> salah]).string,
           value_2 |-> get(body.fields, "value_2", [string |-> salah]).string,
           value_3 |-> get(body.fields, "value_3", [string |-> salah]).string,
           activity_note |-> get(body.fields, "activity_note", [string |-> <<>>]).string ])

answered(r, rules) ==
  respond(r.value, 200, rules, <<"predict_student_progress">> \o r.trace)

\* POST /predict-student
predict_student(kind, rules, loaded, out, body) ==
  IF kind = "None"
    THEN not_loaded(500, rules)
  ELSE IF body.json = "malformed"
    THEN server_error("400 Bad Request", rules, <<>>)
  ELSE IF kind = "dict"
    THEN respond([success |-> FALSE, error |-> "Prediction capability not available"],
                 400, rules, <<>>)
  ELSE answered(predict_student_progress_json(loaded, out, body), rules)

\* lines 215-235: the targets the server answers when the chatbot has no
\* get_aet_targets
default_targets ==
  [ communication |->
      << "Can identify and name basic emotions in self and others",
         "Uses appropriate greetings with familiar adults",
         "Follows simple two-step instructions",
         "Requests help when needed using words or gestures" >>,
    social |->
      << "Demonstrates turn-taking in group activities",
         "Shares materials with peers when prompted",
         "Participates in simple group games",
         "Shows awareness of others' feelings" >>,
    independence |->
      << "Completes self-care tasks with minimal support",
         "Follows visual schedule for daily routines",
         "Organizes personal belongings",
         "Makes simple choices when offered options" >> ]

\* GET /get-aet-targets: neither a dict nor a TeachSmartChatbot has get_aet_targets
get_aet_targets(kind, rules) ==
  IF kind = "None"
    THEN not_loaded(200, rules)
    ELSE respond([success |-> TRUE, targets |-> default_targets], 200, rules, <<>>)

\* a server that has not loaded anything yet
InitRoutes ==
  /\ chatbot = "None"
  /\ is_loaded = FALSE
  /\ activity_rules = NoAttribute
  /\ generator_loaded = FALSE
  /\ generator_rules = NoAttribute
  /\ call = Idle
  /\ personalized = 0

\* load_chatbot: pickle.load gives what the file holds, the dict of model parts
\* that AutismTherapyPredictor reads from the same file or a pickled chatbot;
\* when it raises, the fallback TeachSmartChatbot() is constructed, with or
\* without its model.  With no file the global stays None.
LoadChatbot ==
  /\ chatbot = "None"
  /\ call.status = "idle"
  /\ \E kind \in {"dict", "TeachSmartChatbot"}, loaded \in BOOLEAN :
       /\ chatbot' = kind
       /\ is_loaded' = (kind = "TeachSmartChatbot" /\ loaded)
       /\ activity_rules' = IF kind = "TeachSmartChatbot"
                              THEN _load_activity_mapping_rules ELSE NoAttribute
  /\ UNCHANGED <<generator_loaded, generator_rules, call, personalized>>

ReceiveHttp ==
  \E route \in Routes, body \in HttpBodies :
    /\ call.status = "idle"
    /\ call' = pending([op |-> route, body |-> body])
    /\ UNCHANGED <<chatbot, is_loaded, activity_rules, generator_loaded, generator_rules,
                   personalized>>

\* random.choice is drawn only when the chatbot answers a greeting
route_choices(body) ==
  IF body.json = "object" /\ "string" \in DOMAIN aet_target_of(body.fields)
    THEN choices(aet_target_of(body.fields).string)
    ELSE {0}

GenerateResource ==
  /\ call.status = "pending"
  /\ call.op = "/generate-resource"
  /\ \E out \in inferences(is_loaded, ServerOutputs), choice \in route_choices(call.args.body), now \in Clock :
       \E r \in { generate_resource(chatbot, activity_rules, is_loaded, out, choice, now,
                                    call.args.body) } :
         /\ activity_rules' = r.value.rules
         /\ call' = finished(r, r.value.response, out)
  /\ UNCHANGED <<chatbot, is_loaded, generator_loaded, generator_rules, personalized>>

PredictStudent ==
  /\ call.status = "pending"
  /\ call.op = "/predict-student"
  /\ \E out \in inferences(is_loaded, ClassifierOutputs) :
       \E r \in { predict_student(chatbot, activity_rules, is_loaded, out, call.args.body) } :
         call' = finished(r, r.value.response, out)
  /\ UNCHANGED <<chatbot, is_loaded, activity_rules, generator_loaded, generator_rules,
                 personalized>>

GetAetTargets ==
  /\ call.status = "pending"
  /\ call.op = "/get-aet-targets"
  /\ \E r \in { get_aet_targets(chatbot, activity_rules) } :
       call' = finished(r, r.value.response, NoClassifier)
  /\ UNCHANGED <<chatbot, is_loaded, activity_rules, generator_loaded, generator_rules,
                 personalized>>

NextRoutes ==
  \/ LoadChatbot
  \/ ReceiveHttp
  \/ GenerateResource
  \/ PredictStudent
  \/ GetAetTargets
  \/ Return

SpecRoutes == InitRoutes /\ [][NextRoutes]_vars

(***************************************************************************)
(* Direct calls of the two personalizers, each on a newly constructed       *)
(* object: the activity handed in is the copy of a template of the table,   *)
(* as the matcher makes it, or the default activity of a label.             *)
(***************************************************************************)
PersonalizeAges == {3, 4, 8, 9}

PersonalizeInterests ==
  { <<>>, <<"cars", "animals", "music">>, <<"music", "pets">>, <<"bears">>,
    <<"colors", "blocks">>, <<"books", "art">>, <<"unknown">> }

\* the table of the class whose personalizer is called
table_for(op) ==
  IF op = "TeachSmartChatbot._personalize_activity"
    THEN _load_activity_mapping_rules
    ELSE _load_activity_rules

\* every template of every label; k = 0 stands for the label's default activity
PersonalizeCalls ==
  UNION { [ op : {op},
            label : {label},
            k : 0..Len(table_for(op)[label]),
            student_name : MatcherNames,
            student_age : PersonalizeAges,
            interests : PersonalizeInterests ] :
          op \in {"TeachSmartChatbot._personalize_activity",
                  "EnhancedActivityGenerator._personalize_activity"},
          label \in Labels }

\* the activity a call hands to the personalizer
activity_of(rules, label, k, default) ==
  IF k = 0 THEN default ELSE copy_of_template(label, k, rules[label][k])

\* what a reader of the activity a sees in the table rules at this moment
view(rules, a) ==
  [ name |-> a.name,
    description |-> a.description,
    materials |-> list_of(rules, a.materials, "materials"),
    steps |-> list_of(rules, a.steps, "steps"),
    duration |-> a.duration,
    age_note |-> a.age_note,
    personalization |-> a.personalization ]

\* the finished call: the activity as it was handed in and as it was returned
personalized_from(rules, activity, p) ==
  done([before |-> view(rules, activity), after |-> view(p.rules, p.activity)])

InitPersonalize ==
  /\ chatbot = "TeachSmartChatbot"
  /\ is_loaded = FALSE
  /\ activity_rules = _load_activity_mapping_rules
  /\ generator_loaded = TRUE
  /\ generator_rules = _load_activity_rules
  /\ call \in {pending(c) : c \in PersonalizeCalls}
  /\ personalized = 0

PersonalizeActivity ==
  /\ call.status = "pending"
  /\ call.op = "TeachSmartChatbot._personalize_activity"
  /\ \E activity \in { activity_of(activity_rules, call.args.label, call.args.k,
                                   _get_default_activity_for_label(call.args.label)) } :
       \E p \in { _personalize_activity(activity_rules, activity, call.args.student_name,
                                        call.args.student_age, call.args.interests) } :
         /\ activity_rules' = p.rules
         /\ call' = personalized_from(activity_rules, activity, p)
  /\ UNCHANGED <<chatbot, is_loaded, generator_loaded, generator_rules, personalized>>

GeneratorPersonalizeActivity ==
  /\ call.status = "pending"
  /\ call.op = "EnhancedActivityGenerator._personalize_activity"
  /\ \E activity \in { activity_of(generator_rules, call.args.label, call.args.k,
                                   _get_default_activity(call.args.label)) } :
       \E p \in { generator_personalize_activity(generator_rules, activity,
                    call.args.student_name, call.args.student_age, call.args.interests) } :
         /\ generator_rules' = p.rules
         /\ call' = personalized_from(generator_rules, activity, p)
  /\ UNCHANGED <<chatbot, is_loaded, activity_rules, generator_loaded, personalized>>

NextPersonalize ==
  \/ PersonalizeActivity
  \/ GeneratorPersonalizeActivity

SpecPersonalize == InitPersonalize /\ [][NextPersonalize]_vars

(***************************************************************************)
(* test_activity_integration.py: the test's own copy of the rule table and  *)
(* its matcher, beside the chatbot's                                        *)
(***************************************************************************)
integration_activity_rules ==
  0 :> <<
      [ pattern |-> <<"t","a","n","t","r","u","m","|","m","e","l","t","d","o","w","n","|","m","a","r","a","h","|","m","e","n","a","n","g","i","s","|","c","r","y","i","n","g","|","u","p","s","e","t">>,
        type |-> "calming_sensory",
        activity |-> [
          name |-> "Deep Pressure Calm Down",
          description |-> "Use weighted lap pad and deep breathing with favorite stuffed animal",
          materials |-> <<"Weighted lap pad",
                          "Soft stuffed animal",
                          "Quiet space">>,
          steps |-> <<"Guide student to quiet corner with dim lighting",
                      "Place weighted lap pad on student's lap",
                      "Model slow breathing: 'Breathe in like smelling flowers, out like blowing bubbles'",
                      "Stay nearby but give space",
                      "Wait for student to signal readiness to return">>,
          duration |-> "5-10 minutes",
          level |-> "immediate support" ] ],
      [ pattern |-> <<"t","i","d","a","k"," ","b","i","s","a"," ","k","o","n","s","e","n","t","r","a","s","i","|","h","y","p","e","r","a","c","t","i","v","e","|","t","i","d","a","k"," ","f","o","k","u","s","|","c","a","n","'","t"," ","f","o","c","u","s","|","a","t","t","e","n","t","i","o","n">>,
        type |-> "attention_regulation",
        activity |-> [
          name |-> "Focus Basket Activity",
          description |-> "Simple sorting task with immediate success",
          materials |-> <<"2 baskets",
                          "5 large colorful objects",
                          "Timer">>,
          steps |-> <<"Set timer for 2 minutes only",
                      "Show 2 baskets: red objects and blue objects",
                      "Start with just 3 objects total",
                      "Celebrate each correct placement immediately",
                      "Stop before student gets frustrated">>,
          duration |-> "2-3 minutes",
          level |-> "immediate support" ] ] >>
  @@
  1 :> <<
      [ pattern |-> <<"b","a","n","t","u","|","b","a","n","t","u","a","n","|","d","e","n","g","a","n"," ","b","a","n","t","u","a","n","|","p","e","r","l","u"," ","b","a","n","t","u","a","n","|","n","e","e","d","s"," ","h","e","l","p","|","w","i","t","h"," ","h","e","l","p">>,
        type |-> "assisted_learning",
        activity |-> [
          name |-> "Hand-Over-Hand Number Matching",
          description |-> "Match number cards 1-3 with physical guidance",
          materials |-> <<"Large number cards 1-3",
                          "Matching objects",
                          "Visual supports">>,
          steps |-> <<"Place number card 1 on table",
                      "Guide student's hand to pick up 1 object",
                      "Help place object on number card",
                      "Say: 'One object on number one!'",
                      "Gradually reduce physical support",
                      "Celebrate each success immediately">>,
          duration |-> "5-8 minutes",
          level |-> "developing with support" ] ],
      [ pattern |-> <<"c","o","u","n","t","|","c","o","u","n","t","i","n","g","|","n","u","m","b","e","r","s","|","m","a","t","h">>,
        type |-> "math_support",
        activity |-> [
          name |-> "Counting Bears Adventure",
          description |-> "Use teddy bear counters in favorite colors",
          materials |-> <<"Teddy bear counters",
                          "Ice cube trays",
                          "Number cards 1-10">>,
          steps |-> <<"Start with 5 colorful teddy bears",
                      "Show how to place one bear in each ice cube compartment",
                      "Count together: 'One bear, two bears, three bears...'",
                      "Let student try with 3 bears first, then build up",
                      "Sing counting songs while placing bears">>,
          duration |-> "8-12 minutes",
          level |-> "developing with support" ] ] >>
  @@
  2 :> <<
      [ pattern |-> <<"m","a","n","d","i","r","i","|","s","e","n","d","i","r","i","|","b","i","s","a"," ","s","e","n","d","i","r","i","|","i","n","d","e","p","e","n","d","e","n","t","|","c","a","n"," ","d","o"," ","a","l","o","n","e">>,
        type |-> "independent_challenge",
        activity |-> [
          name |-> "Multi-Step Problem Solving",
          description |-> "Complete 4-step sequence independently",
          materials |-> <<"Complex puzzle",
                          "Multi-step instructions",
                          "Self-check list">>,
          steps |-> <<"Present 4-step visual instruction card",
                      "Student reads/interprets steps independently",
                      "Provide materials but minimal guidance",
                      "Student self-checks work against model",
                      "Encourage problem-solving when stuck">>,
          duration |-> "12-15 minutes",
          level |-> "independent challenge" ] ] >>

\* lines 114-124: the copy of the k-th template of the label, with its pattern
found_in_test(label_rules, k, student_name) ==
  IF k > 0
    THEN [ activity |->
             [ name |-> label_rules[k].activity.name,
               description |-> [ for |-> IF student_name # Student
                                           THEN student_name ELSE <<>>,
                                 text |-> label_rules[k].activity.description ],
               materials |-> label_rules[k].activity.materials,
               steps |-> label_rules[k].activity.steps,
               duration |-> label_rules[k].activity.duration,
               level |-> label_rules[k].activity.level,
               type |-> label_rules[k].type ],
           keyword_pattern |-> label_rules[k].pattern ]
    ELSE [activity |-> "None", keyword_pattern |-> "None"]

\* find_matching_activity of the test
find_matching_activity(rules, prediction_label, activity_note, student_name) ==
  found_in_test(rules_of(rules, prediction_label),
                first_match(rules_of(rules, prediction_label), lower(activity_note), 1),
                student_name)

TableNotes ==
  { <<"c","h","i","l","d"," ","n","e","e","d","s"," ","h","e","l","p"," ","w","i","t","h"," ","c","o","u","n","t","i","n","g"," ","n","u","m","b","e","r","s">>,
    <<"c","o","u","n","t","i","n","g"," ","a","c","t","i","v","i","t","i","e","s"," ","f","o","r"," ","M","a","r","c","u","s"," ","w","h","o"," ","n","e","e","d","s"," ","h","e","l","p"," ","w","i","t","h"," ","n","u","m","b","e","r","s">>,
    <<"a","n","a","k"," ","b","i","s","a"," ","d","e","n","g","a","n"," ","b","a","n","t","u","a","n"," ","g","u","r","u">>,
    <<"C","o","u","n","t"," ","t","h","e"," ","b","l","o","c","k","s">>,
    <<"a","n","a","k"," ","s","e","d","a","n","g"," ","b","e","l","a","j","a","r">>,
    <<"a","c","t","i","v","i","t","i","e","s"," ","f","o","r"," ","A","m","a","r","a"," ","w","h","o"," ","i","s"," ","h","a","v","i","n","g"," ","t","a","n","t","r","u","m","s"," ","a","n","d"," ","m","e","l","t","d","o","w","n","s">> }

\* the chatbot's matcher is called as the chatbot calls it for a request that
\* names no interests
TableCalls ==
  [ op : {"TeachSmartChatbot._find_matching_activity",
          "test_activity_integration.find_matching_activity"},
    label : MatcherLabels,
    activity_note : TableNotes,
    student_name : {Student, <<"M","a","r","c","u","s">>},
    student_age : {5},
    interests : {<<>>} ]

InitTables ==
  /\ chatbot = "TeachSmartChatbot"
  /\ is_loaded = FALSE
  /\ activity_rules = _load_activity_mapping_rules
  /\ generator_loaded = FALSE
  /\ generator_rules = NoAttribute
  /\ call \in {pending(c) : c \in TableCalls}
  /\ personalized = 0

MatchInChatbot ==
  /\ call.status = "pending"
  /\ call.op = "TeachSmartChatbot._find_matching_activity"
  /\ \E m \in { _find_matching_activity(activity_rules, call.args.label,
                  call.args.activity_note, call.args.student_name,
                  call.args.student_age, call.args.interests) } :
       /\ activity_rules' = m.rules
       /\ call' = done([activity |-> snapshot(m.rules, m.activity)])
  /\ UNCHANGED <<chatbot, is_loaded, generator_loaded, generator_rules, personalized>>

MatchInTest ==
  /\ call.status = "pending"
  /\ call.op = "test_activity_integration.find_matching_activity"
  /\ call' = done(find_matching_activity(integration_activity_rules, call.args.label,
                    call.args.activity_note, call.args.student_name))
  /\ UNCHANGED <<chatbot, is_loaded, activity_rules, generator_loaded, generator_rules,
                 personalized>>

NextTables ==
  \/ MatchInChatbot
  \/ MatchInTest

SpecTables == InitTables /\ [][NextTables]_vars
(***************************************************************************)
(* Direct calls of the renderer: an activity as the matcher returned it and *)
(* a result as the classifier returned it are rendered several times over.  *)
(***************************************************************************)
\* how many times a run renders the same activity
MaxRenderings == 2

RenderNotes ==
  { <<"a","n","a","k"," ","t","a","n","t","r","u","m"," ","d","a","n"," ","t","i","d","a","k"," ","b","i","s","a"," ","k","o","n","s","e","n","t","r","a","s","i">>,
    <<"a","n","a","k"," ","m","u","l","a","i"," ","m","e","m","a","h","a","m","i"," ","d","e","n","g","a","n"," ","b","a","n","t","u","a","n"," ","v","i","s","u","a","l">>,
    <<"A","n","a","k"," ","S","e","d","a","n","g"," ","B","e","l","a","j","a","r">> }

RenderTexts ==
  { <<"s","u","g","g","e","s","t","i","o","n","s">>,
    <<"a","c","t","i","v","i","t","i","e","s"," ","f","o","r"," ","A","m","a","r","a"," ","w","h","o"," ","l","o","v","e","s"," ","c","a","r","s"," ","a","n","d"," ","i","s"," ","h","a","v","i","n","g"," ","t","a","n","t","r","u","m","s">> }

RenderOutputs == {out \in ClassifierOutputs : out.prediction \in Labels /\ Len(out.probabilities) = 3}

RenderCalls ==
  [ op : {"_format_mapped_activity_response"},
    out : RenderOutputs,
    activity_note : RenderNotes,
    aet_target : RenderTexts,
    student_age : RequestAges,
    ability_level : AbilityLevels ]

\* the call in progress: the arguments, the values they had when the call was
\* made, and what each rendering so far returned
rendering(m, prediction_result, c) ==
  [ status |-> "pending",
    op |-> c.op,
    args |-> [ activity |-> m.activity,
               prediction_result |-> prediction_result,
               aet_target |-> c.aet_target,
               student_age |-> c.student_age,
               ability_level |-> c.ability_level ],
    given |-> [ activity |-> snapshot(m.rules, m.activity),
                prediction_result |-> prediction_result ],
    rendered |-> <<>> ]

\* lines 795-810: the classification and the matched activity are handed over
InitRender ==
  /\ chatbot = "TeachSmartChatbot"
  /\ is_loaded = TRUE
  /\ generator_loaded = FALSE
  /\ generator_rules = NoAttribute
  /\ personalized = 0
  /\ \E c \in RenderCalls :
       \E p \in { predict_student_condition(TRUE, c.out, benar, salah, benar,
                                            c.activity_note).value } :
         \E m \in { _find_matching_activity(_load_activity_mapping_rules, p.label,
                      c.activity_note, _extract_student_name(c.aet_target),
                      c.student_age, _extract_interests(c.aet_target)) } :
           /\ activity_rules = m.rules
           /\ call = rendering(m, p, c)

\* a renderer that numbers its renderings
RenderNumbered ==
  /\ call.op = "_format_mapped_activity_response"
  /\ Len(call.rendered) < MaxRenderings
  /\ call' = [call EXCEPT !.rendered =
                Append(@, << [ section |-> "Rendering", number |-> Len(call.rendered) ] >>
                          \o _format_mapped_activity_response(
                               snapshot(activity_rules, call.args.activity),
                               call.args.prediction_result, call.args.aet_target,
                               call.args.student_age, call.args.ability_level))]
  /\ UNCHANGED <<chatbot, is_loaded, activity_rules, generator_loaded, generator_rules, personalized>>

\* the renderer reads its arguments and assigns to none of them
FormatMappedActivityResponse ==
  /\ call.op = "_format_mapped_activity_response"
  /\ Len(call.rendered) < MaxRenderings
  /\ call' = [call EXCEPT !.rendered =
                Append(@, _format_mapped_activity_response(
                            snapshot(activity_rules, call.args.activity),
                            call.args.prediction_result, call.args.aet_target,
                            call.args.student_age, call.args.ability_level))]
  /\ UNCHANGED <<chatbot, is_loaded, activity_rules, generator_loaded, generator_rules, personalized>>

NextRender == FormatMappedActivityResponse

SpecRender == InitRender /\ [][NextRender]_vars

(***************************************************************************)
(* test_enhanced_chatbot.py: the predictor the test puts in the chatbot     *)
(***************************************************************************)
\* the label MockPredictor.predict_student_condition derives from the note
MockPredictor(note) ==
  IF any_keyword_in(lower(note), <<<<"t","a","n","t","r","u","m">>, <<"t","i","d","a","k"," ","b","i","s","a">>, <<"s","a","l","a","h">>>>) THEN 0
  ELSE IF any_keyword_in(lower(note), <<<<"b","a","n","t","u">>, <<"b","a","n","t","u","a","n">>, <<"v","i","s","u","a","l">>>>) THEN 1
  ELSE 2


(***************************************************************************)
(* Properties of the matchers                                             *)
(***************************************************************************)
matcher_done ==
  /\ call.status = "done"
  /\ call.op \in {"_find_matching_activity", "_generate_specific_activity"}

\* the table the finished call read, and the defaults of its class
table_of_call ==
  IF call.op = "_find_matching_activity" THEN activity_rules ELSE generator_rules

defaults_of_call ==
  IF call.op = "_find_matching_activity" THEN defaults ELSE generator_defaults

\* the indices of the rules of the call's label whose pattern is found in its note
matching_rules ==
  LET label_rules == rules_of(table_of_call, call.args.label)
  IN  {k \in 1..Len(label_rules) :
         re_search(label_rules[k].pattern, lower(call.args.activity_note))}

\* C1: first-match-wins.  Whenever a matcher call (of either class) finishes for
\* a label in {0,1,2} and a note in which two or more patterns of that label's
\* rule list are found, the activity returned is built from the template of the
\* earliest of those patterns (its type, level and description text) and the
\* matched pattern reported is that pattern.
C1_FirstMatchWins ==
  (matcher_done /\ call.args.label \in Labels /\ Cardinality(matching_rules) >= 2)
    => LET label_rules == rules_of(table_of_call, call.args.label)
           first == CHOOSE k \in matching_rules : \A j \in matching_rules : k <= j
       IN  /\ call.result.matched_keywords = label_rules[first].pattern
           /\ call.result.type = label_rules[first].type
           /\ call.result.level = label_rules[first].activity.level
           /\ call.result.description.text = label_rules[first].activity.description

\* a call of the chatbot's matcher for label 1 whose note holds both a counting
\* word and "needs help" has finished
C1_Witness ==
  /\ matcher_done
  /\ call.op = "_find_matching_activity"
  /\ call.args.label = 1
  /\ Cardinality(matching_rules) >= 2
  /\ call.result.type = "math_support"

\* C2: default fallback.  Each class has exactly one default template for each
\* label in {0,1,2}; a finished matcher call for such a label reports the matched
\* pattern "default" exactly when no pattern of the label's rule list is found in
\* the note, and then the activity returned is built from that label's default
\* template; the call returns an activity, never an error.
C2_DefaultFallback ==
  /\ DOMAIN defaults = Labels
  /\ DOMAIN generator_defaults = Labels
  /\ (matcher_done /\ call.args.label \in Labels)
       => /\ (call.result.matched_keywords = default_keywords)
               <=> (matching_rules = {})
          /\ (matching_rules = {})
               => LET d == defaults_of_call[call.args.label]
                  IN  /\ call.result.name = d.name
                      /\ call.result.type = d.type
                      /\ call.result.level = d.level
                      /\ call.result.description.text = d.description

\* a call for label 0 whose note holds none of label 0's keywords has finished
C2_Witness ==
  /\ matcher_done
  /\ call.op = "_find_matching_activity"
  /\ call.args.label = 0
  /\ matching_rules = {}
  /\ call.result.name = "Basic Calming Activity"

\* what the same call returns on a freshly loaded instance
fresh_result ==
  LET a == call.args
      r == _find_matching_activity(_load_activity_mapping_rules, a.label,
             a.activity_note, a.student_name, a.student_age, a.interests)
  IN  snapshot(r.rules, r.activity)

\* C3: the matcher is deterministic over any history.  Every finished call of
\* _find_matching_activity returns what the same call returns on a freshly loaded
\* instance, whatever calls were served before.
C3_DeterministicOverHistory ==
  (call.status = "done" /\ call.op = "_find_matching_activity")
    => call.result = fresh_result

(***************************************************************************)
(* Properties of the server's requests                                    *)
(***************************************************************************)
request_done ==
  /\ call.status = "done"
  /\ call.op = "generate_learning_resource"

\* how many times the finished call invoked a function, and where first
count(name) == Cardinality({i \in 1..Len(call.trace) : call.trace[i] = name})

position(name) ==
  CHOOSE i \in 1..Len(call.trace) :
    /\ call.trace[i] = name
    /\ \A j \in 1..(i - 1) : call.trace[j] # name

\* the functions that belong to the classifier, the matcher and the renderer
classifier_functions ==
  {"predict_student_progress", "predict_student_condition", "vectorizer.transform",
   "classifier.predict", "classifier.predict_proba"}

matcher_functions == {"_find_matching_activity", "_personalize_activity"}

renderer_functions == {"_format_mapped_activity_response"}

invoked(functions) == \E i \in 1..Len(call.trace) : call.trace[i] \in functions

is_greeting_request == request_done /\ _is_greeting(call.args.aet_target)

is_activity_request ==
  /\ request_done
  /\ ~_is_greeting(call.args.aet_target)
  /\ _is_activity_request(call.args.aet_target)

is_templated_request ==
  /\ request_done
  /\ ~_is_greeting(call.args.aet_target)
  /\ ~_is_activity_request(call.args.aet_target)

\* C4: the rule table is read-only after initialization.  In every state
\* reachable by any sequence of requests, every template stored in
\* activity_rules equals the value it had when the table was loaded.
C4_RuleTableReadOnly == activity_rules = _load_activity_mapping_rules

\* C6: greeting short-circuit.  Whenever generate_learning_resource finishes for
\* a text that matches a greeting pattern (also one that holds an activity
\* keyword), it has invoked neither the classifier nor the matcher nor the
\* renderer, and it returned success with content equal to one of the five
\* fixed greeting strings.
C6_GreetingShortCircuit ==
  is_greeting_request
    => /\ ~invoked(classifier_functions)
       /\ ~invoked(matcher_functions)
       /\ ~invoked(renderer_functions)
       /\ call.inference = <<>>
       /\ call.outcome = "return"
       /\ call.result.success = TRUE
       /\ Len(greeting_responses) = 5
       /\ \E i \in 1..5 : call.result.content = greeting_responses[i]

\* a greeting that also holds the activity keyword "teaching" was answered, with
\* the model loaded, by the third greeting string
C6_Witness ==
  /\ is_greeting_request
  /\ is_loaded
  /\ _is_activity_request(call.args.aet_target)
  /\ call.result.content = greeting_responses[3]

\* C7: activity-request routing.  Whenever generate_learning_resource finishes
\* for a text that is not a greeting and holds an activity keyword, with the
\* model loaded and a classifier that answered a label in {0,1,2}, it has run
\* classify, then match, then personalize, then render, in that order, has
\* invoked the classifier exactly once, and returned a response of format_type
\* 'mapped_activity'.
C7_ActivityRequestRouting ==
  (/\ is_activity_request
   /\ is_loaded
   /\ call.inference # <<>>
   /\ call.inference[1].prediction \in Labels)
    => /\ count("classifier.predict") = 1
       /\ count("predict_student_condition") = 1
       /\ call.result.metadata.format_type = "mapped_activity"
       /\ count("_find_matching_activity") = 1
       /\ count("_personalize_activity") = 1
       /\ count("_format_mapped_activity_response") = 1
       /\ position("predict_student_condition") < position("_find_matching_activity")
       /\ position("_find_matching_activity") < position("_personalize_activity")
       /\ position("_personalize_activity")
            < position("_format_mapped_activity_response")

classification_done ==
  /\ call.status = "done"
  /\ call.op \in {"predict_student_condition", "predict_student_progress",
                  "predict_and_generate_activity"}

\* the model of the object the finished call was made on did not load
model_not_loaded ==
  IF call.op = "predict_and_generate_activity" THEN ~generator_loaded ELSE ~is_loaded

\* C10: when the model failed to load, every direct classification call
\* (predict_student_condition, predict_student_progress,
\* EnhancedActivityGenerator.predict_and_generate_activity) returns, for every
\* input, a result that carries an error, without invoking the classifier or the
\* vectorizer and without raising.
C10_ErrorWithoutModel ==
  (classification_done /\ model_not_loaded)
    => /\ call.outcome = "return"
       /\ "error" \in DOMAIN call.result
       /\ call.trace = <<>>
       /\ call.inference = <<>>
       /\ call.op = "predict_student_progress" => call.result.success = FALSE

\* the generator, not loaded, was asked for an activity for a named student with
\* interests and answered "Model not loaded"
C10_Witness ==
  /\ classification_done
  /\ call.op = "predict_and_generate_activity"
  /\ ~generator_loaded
  /\ call.args.interests # <<>>
  /\ call.result = [error |-> "Model not loaded"]

(***************************************************************************)
(* Properties of concurrent requests                                      *)
(***************************************************************************)
\* what the request of thread t receives when it runs alone on a freshly loaded
\* instance, with the same answer of the classifier and the same clock
alone(t) ==
  generate_learning_resource(_load_activity_mapping_rules, TRUE, call[t].inference,
    0, call[t].now, call[t].args.student_age, call[t].args.aet_target,
    call[t].args.ability_level, call[t].args.format_type).value.response

\* C5: concurrent requests can safely share one loaded instance.  Whenever an
\* activity request that ran interleaved with another on the same chatbot has
\* finished, its response (the materials and the steps of its activity
\* included) is the one it would receive if it ran alone on a freshly loaded
\* instance.
C5_SafeSharing ==
  \A t \in Threads :
    call[t].status = "done" => call[t].result = alone(t)

(***************************************************************************)
(* Properties of the server's requests: failures                          *)
(***************************************************************************)
\* C11: when the model failed to load, the greeting path and the templated path
\* of generate_learning_resource remain usable: every greeting and every text
\* that is neither greeting nor activity request is answered with success true
\* and content (one of the greeting strings, or a templated text that is not
\* empty), and the classifier is not invoked.
C11_UsableWithoutModel ==
  (request_done /\ ~is_loaded /\ ~is_activity_request)
    => /\ call.outcome = "return"
       /\ call.result.success = TRUE
       /\ "error" \notin DOMAIN call.result
       /\ ~invoked(classifier_functions)
       /\ call.inference = <<>>
       /\ is_greeting_request
            => \E i \in 1..Len(greeting_responses) :
                 call.result.content = greeting_responses[i]
       /\ is_templated_request
            => /\ Len(call.result.content) > 0
               /\ call.result.metadata.model_available = FALSE

\* without the model, a text about meltdowns was answered with the meltdown
\* guidelines
C11_Witness ==
  /\ is_templated_request
  /\ ~is_loaded
  /\ call.result.success = TRUE
  /\ call.result.content = _meltdown_content

\* C12: when the classifier returns a label outside {0,1,2}, the classification
\* is surfaced as a failure: the activity request ends with an error result
\* (success false and an error), no activity is produced for it, and nothing is
\* retried or substituted.
C12_OutOfRangeLabelFails ==
  (/\ is_activity_request
   /\ call.inference # <<>>
   /\ call.inference[1].prediction \notin Labels)
    => /\ call.result.success = FALSE
       /\ "error" \in DOMAIN call.result
       /\ "content" \notin DOMAIN call.result
       /\ ~invoked({"_generate_rule_based_activities"})
       /\ count("classifier.predict") = 1

(***************************************************************************)
(* Properties of the routes                                                *)
(***************************************************************************)
route_done ==
  /\ call.status = "done"
  /\ call.op \in Routes

\* the texts an error payload of the routes can carry
error_texts ==
  { "Chatbot model not loaded", "Prediction capability not available",
    "Trained model not available", "Unknown error occurred",
    "Server error: 400 Bad Request",
    "Server error: 'NoneType' object has no attribute 'get'",
    "Server error: 'dict' object has no attribute 'generate_learning_resource'",
    "Server error: 'int' object has no attribute 'lower'",
    "'NoneType' object has no attribute 'get'",
    "'int' object has no attribute 'lower'",
    "KeyError", "ValueError" }

\* the request carried a target the engine cannot read as text
unreadable_target ==
  /\ call.op = "/generate-resource"
  /\ call.args.body.json = "object"
  /\ "string" \notin DOMAIN aet_target_of(call.args.body.fields)

\* C13: every failure of a server request (/generate-resource,
\* /predict-student, /get-aet-targets) is answered with a structured payload
\* {success: false, error: string}, and no exception escapes a route handler:
\* every handled request returns; a payload without success true has exactly the
\* fields success and error, the error one of the handler's texts; a chatbot
\* that is not loaded, a body that is no JSON object on a POST route, an
\* exception raised inside the engine, a classification that raised and every
\* status other than 200 give such a payload.
C13_StructuredFailure ==
  route_done
    => /\ call.outcome = "return"
       /\ call.result.payload.success = TRUE => "error" \notin DOMAIN call.result.payload
       /\ call.result.payload.success = FALSE
            => /\ DOMAIN call.result.payload = {"success", "error"}
               /\ call.result.payload.error \in error_texts
       /\ chatbot = "None" => call.result.payload.success = FALSE
       /\ call.result.status # 200 => call.result.payload.success = FALSE
       /\ (call.op # "/get-aet-targets" /\ call.args.body.json # "object")
            => call.result.payload.success = FALSE
       /\ unreadable_target => call.result.payload.success = FALSE
       /\ (/\ call.op = "/predict-student"
           /\ call.inference # <<>>
           /\ call.inference[1].prediction \notin Labels)
            => call.result.payload.success = FALSE

\* the engine raised on a target that is a number, and the route answered 500
\* with the text of the exception
C13_Witness ==
  /\ route_done
  /\ chatbot = "TeachSmartChatbot"
  /\ unreadable_target
  /\ call.result.status = 500
  /\ call.result.payload
       = [success |-> FALSE, error |-> "Server error: 'int' object has no attribute 'lower'"]

(***************************************************************************)
(* Properties of the classification results                               *)
(***************************************************************************)
\* the finished call returned a classification
classification_returned ==
  /\ classification_done
  /\ call.outcome = "return"
  /\ IF call.op = "predict_student_condition"
       THEN "label" \in DOMAIN call.result
       ELSE "prediction" \in DOMAIN call.result

classification_result ==
  IF call.op = "predict_student_condition" THEN call.result ELSE call.result.prediction

\* probabilities[label] of a classification result
probability_of_label(c) ==
  CASE c.label = 0 -> c.probabilities.struggling
    [] c.label = 1 -> c.probabilities.needs_support
    [] c.label = 2 -> c.probabilities.doing_well

\* C14: in every classification result, label is the arg-max of the
\* probabilities and confidence is the probability of that label: for every pair
\* (predicted label, probability vector) the classifier returned, confidence
\* equals probabilities[label] and no other probability is greater.
C14_ConfidenceOfLabel ==
  classification_returned
    => /\ classification_result.confidence = probability_of_label(classification_result)
       /\ classification_result.probabilities.struggling <= classification_result.confidence
       /\ classification_result.probabilities.needs_support <= classification_result.confidence
       /\ classification_result.probabilities.doing_well <= classification_result.confidence

\* C15: when the classifier returns a probability vector with fewer than three
\* entries (length 0, 1 or 2) and a label in {0,1,2}, the classification still
\* succeeds: the call returns a classification, each missing probability is
\* reported as 0, and no error is raised or returned.
C15_ShortVectorSucceeds ==
  (/\ classification_done
   /\ call.inference # <<>>
   /\ call.inference[1].prediction \in Labels
   /\ Len(call.inference[1].probabilities) < 3)
    => /\ call.outcome = "return"
       /\ "error" \notin DOMAIN call.result
       /\ classification_returned
       /\ classification_result.probabilities.doing_well = 0
       /\ Len(call.inference[1].probabilities) < 2
            => classification_result.probabilities.needs_support = 0
       /\ Len(call.inference[1].probabilities) < 1
            => classification_result.probabilities.struggling = 0

\* what the encoder gives for each assessment value of the calls, in tenths:
\* 10 for a value equal to 'benar' ignoring case, else 5 for a value that holds
\* 'bantu' ignoring case, else 0
expected_ordinal ==
  (benar :> 10) @@ (<<"B","E","N","A","R">> :> 10) @@ (<<"D","i","b","a","n","t","u">> :> 5) @@ (<<"B","A","N","T","U">> :> 5)
    @@ (salah :> 0) @@ (<<"m","a","y","b","e">> :> 0) @@ (<<"b","e","n","a","r"," ">> :> 0)

\* the classifier of the finished call was given a feature vector
classifier_given ==
  /\ classification_done
  /\ call.features # <<>>

\* the value of the assessment the call was made on, 'salah' when it is missing
value_of(key) == get(call.args.assessment_data, key, salah)

\* C16: the feature encoder maps each of the three assessment values
\* independently and purely: whenever a classification reaches the classifier,
\* the first three features it was given are the ordinals of value_1, value_2
\* and value_3 in that order, each a function of its own value alone (1.0 for
\* 'benar' ignoring case, else 0.5 for a value holding 'bantu', else 0.0, an
\* unrecognized string included), the text features follow them, and the
\* encoding raised nothing: the classifier was reached for every such call.
C16_FeatureEncoder ==
  /\ classifier_given
       => /\ Len(call.features[1]) = 4
          /\ call.features[1][1] = expected_ordinal[value_of("value_1")]
          /\ call.features[1][2] = expected_ordinal[value_of("value_2")]
          /\ call.features[1][3] = expected_ordinal[value_of("value_3")]
          /\ call.features[1][4]
               = [vectorized |-> get(call.args.assessment_data, "activity_note", <<>>)]
  /\ (classification_done /\ ~model_not_loaded) => classifier_given

\* the classifier was given 0, 0.5, 0 for the values 'maybe', 'BANTU', 'benar '
C16_Witness ==
  /\ classifier_given
  /\ call.args.assessment_data.value_1 = <<"m","a","y","b","e">>
  /\ call.features[1][1] = 0
  /\ call.features[1][2] = 5
  /\ call.features[1][3] = 0

(***************************************************************************)
(* Properties of the personalizers                                        *)
(***************************************************************************)
personalize_done ==
  /\ call.status = "done"
  /\ call.op \in {"TeachSmartChatbot._personalize_activity",
                  "EnhancedActivityGenerator._personalize_activity"}

\* the upper end, in minutes, of the durations of the templates and of the
\* personalizers
upper_minutes ==
  [ d \in { "1-2 minutes", "2-3 minutes", "2-5 minutes", "3-5 minutes total",
            "5-8 minutes", "5-10 minutes", "6-8 minutes", "7-10 minutes",
            "8-12 minutes", "10-15 minutes", "12-15 minutes", "15-18 minutes",
            "15-20 minutes", "20-25 minutes" } |->
      CASE d = "1-2 minutes" -> 2
        [] d = "2-3 minutes" -> 3
        [] d \in {"2-5 minutes", "3-5 minutes total"} -> 5
        [] d \in {"5-8 minutes", "6-8 minutes"} -> 8
        [] d \in {"5-10 minutes", "7-10 minutes"} -> 10
        [] d = "8-12 minutes" -> 12
        [] d \in {"10-15 minutes", "12-15 minutes"} -> 15
        [] d = "15-18 minutes" -> 18
        [] d = "15-20 minutes" -> 20
        [] d = "20-25 minutes" -> 25 ]

\* C17: age bands.  For every template, age 3 (just below the lower threshold)
\* gives the duration '2-5 minutes' with the 'shortened' age note; ages 4 and 8
\* (on the thresholds) leave the duration as it was and attach no age note; age
\* 9 (just above the upper threshold) gives a duration longer than the
\* template's own with the 'extended' age note.
C17_AgeBands ==
  personalize_done
    => /\ call.args.student_age = 3
            => /\ call.result.after.duration = "2-5 minutes"
               /\ call.result.after.age_note = <<"Shortened for younger student">>
       /\ call.args.student_age \in {4, 8}
            => /\ call.result.after.duration = call.result.before.duration
               /\ call.result.after.age_note = <<>>
       /\ call.args.student_age = 9
            => /\ call.result.after.age_note = <<"Extended for older student">>
               /\ upper_minutes[call.result.after.duration]
                    > upper_minutes[call.result.before.duration]

\* the material each recognized category of interests adds
category_material ==
  << [words |-> {"cars", "vehicles"}, material |-> "Toy cars for motivation"],
     [words |-> {"animals", "pets"}, material |-> "Animal figures or pictures"],
     [words |-> {"music", "songs"}, material |-> "Background music or songs"] >>

\* the categories that the interests of the finished call hold
categories_present ==
  {i \in 1..Len(category_material) : any_in(call.args.interests, category_material[i].words)}

in_materials(material, materials) ==
  \E j \in 1..Len(materials) : materials[j] = material

\* C18: interest injection applies to each recognized category present.  When
\* the interests hold several recognized categories (cars, animals and music
\* together, or music and pets), the personalizer adds the material of every one
\* of them, one added material per category, not only that of the first found.
C18_EveryCategoryApplied ==
  (personalize_done /\ Cardinality(categories_present) > 1)
    => /\ \A i \in categories_present :
            in_materials(category_material[i].material, call.result.after.materials)
       /\ Len(call.result.after.materials)
            = Len(call.result.before.materials) + Cardinality(categories_present)

\* the interests of the finished call are given and none of them belongs to a
\* category that has a mutation
unmatched_interests ==
  /\ call.args.interests # <<>>
  /\ ~any_in(call.args.interests,
             {"bears", "teddy", "cars", "vehicles", "animals", "pets", "music", "songs"})

\* the activity the finished call was made on, in the table of a new object
activity_of_call ==
  activity_of(table_for(call.op), call.args.label, call.args.k,
    IF call.op = "TeachSmartChatbot._personalize_activity"
      THEN _get_default_activity_for_label(call.args.label)
      ELSE _get_default_activity(call.args.label))

\* what the same call returns when no interests are given: the activity as it
\* is before interest injection
before_injection ==
  IF call.op = "TeachSmartChatbot._personalize_activity"
    THEN _personalize_activity(table_for(call.op), activity_of_call,
           call.args.student_name, call.args.student_age, <<>>)
    ELSE generator_personalize_activity(table_for(call.op), activity_of_call,
           call.args.student_name, call.args.student_age, <<>>)

\* C19: unmatched interests are silently ignored.  For interests that have no
\* category-specific mutation (colors, blocks, books, art, an unknown string),
\* the personalizer returns (nothing is raised) an activity whose name,
\* description, materials, steps and duration are exactly those it has before
\* interest injection, and the rule tables are as they were loaded.
C19_UnmatchedInterestsIgnored ==
  (personalize_done /\ unmatched_interests)
    => /\ call.result.after.name = before_injection.activity.name
       /\ call.result.after.name = call.result.before.name
       /\ call.result.after.description = before_injection.activity.description
       /\ call.result.after.duration = before_injection.activity.duration
       /\ call.result.after.materials = call.result.before.materials
       /\ call.result.after.steps = call.result.before.steps
       /\ call.result.after.age_note = before_injection.activity.age_note
       /\ activity_rules = _load_activity_mapping_rules
       /\ generator_rules = _load_activity_rules

\* the chatbot's personalizer was given colors and blocks for Amara, aged 9, on
\* the template 'Counting Bears Adventure': only the note about the interests
\* was attached
C19_Witness ==
  /\ personalize_done
  /\ call.op = "TeachSmartChatbot._personalize_activity"
  /\ call.args.interests = <<"colors", "blocks">>
  /\ call.args.student_age = 9
  /\ call.result.before.name = "Counting Bears Adventure"
  /\ call.result.after.materials = call.result.before.materials
  /\ call.result.after.personalization # <<>>

(***************************************************************************)
(* Properties of the copies of the rule table                             *)
(***************************************************************************)
table_call_done ==
  /\ call.status = "done"
  /\ call.op \in {"TeachSmartChatbot._find_matching_activity",
                  "test_activity_integration.find_matching_activity"}

\* the note of the finished call matches the counting pattern and the
\* needs-help pattern of label 1
matches_both ==
  /\ re_search(<<"c","o","u","n","t","|","c","o","u","n","t","i","n","g","|","n","u","m","b","e","r","s","|","m","a","t","h">>, lower(call.args.activity_note))
  /\ re_search(<<"b","a","n","t","u","|","b","a","n","t","u","a","n","|","d","e","n","g","a","n"," ","b","a","n","t","u","a","n","|","p","e","r","l","u"," ","b","a","n","t","u","a","n","|","n","e","e","d","s"," ","h","e","l","p","|","w","i","t","h"," ","h","e","l","p">>,
               lower(call.args.activity_note))

\* C20: in label 1's rule list the counting pattern precedes the generic
\* needs-help pattern, so for label 1 and a note that matches both the matcher
\* returns the counting template 'Counting Bears Adventure' and not
\* 'Hand-Over-Hand Number Matching', in every copy of the rule table that holds
\* both patterns (the chatbot's and the integration test's).
C20_CountingBeforeNeedsHelp ==
  (table_call_done /\ call.args.label = 1 /\ matches_both)
    => call.result.activity.name = "Counting Bears Adventure"
(***************************************************************************)
(* Properties of the renderer                                              *)
(***************************************************************************)
render_done ==
  /\ call.op = "_format_mapped_activity_response"
  /\ call.rendered # <<>>

section_at(doc, heading) ==
  IF \E i \in 1..Len(doc) : doc[i].section = heading
    THEN CHOOSE i \in 1..Len(doc) : doc[i].section = heading
    ELSE 0

\* the headings that stand in the document, in the order given
in_order(doc, headings) ==
  /\ \A k \in 1..Len(headings) : section_at(doc, headings[k]) > 0
  /\ \A k \in 1..(Len(headings) - 1) :
       section_at(doc, headings[k]) < section_at(doc, headings[k + 1])

\* C22: the rendered document has its sections in this fixed order: header
\* (objective, age, level, duration), numbered materials, numbered steps,
\* personalization notes only when the activity has any, the differentiation
\* boilerplate, the classification summary, and a closing boilerplate after
\* it; the classification summary holds the condition name, the confidence,
\* the advice and the probability of each of the three labels.
C22_DocumentSections ==
  render_done =>
    \A r \in 1..Len(call.rendered) :
      /\ in_order(call.rendered[r],
                  <<"Learning Resource", "Materials Required", "Implementation Steps",
                    "Differentiation Options", "AI Model Assessment">>)
      /\ {"objective", "student_age", "ability_level", "duration"}
           \subseteq DOMAIN call.rendered[r][section_at(call.rendered[r], "Learning Resource")]
      /\ (section_at(call.rendered[r], "Personalization Notes") > 0)
           <=> (call.given.activity.personalization # <<>>)
      /\ section_at(call.rendered[r], "Personalization Notes") > 0 =>
           in_order(call.rendered[r],
                    <<"Implementation Steps", "Personalization Notes",
                      "Differentiation Options">>)
      /\ {"condition", "confidence", "advice", "struggling", "needs_support", "doing_well"}
           \subseteq DOMAIN call.rendered[r][section_at(call.rendered[r], "AI Model Assessment")]
      /\ section_at(call.rendered[r], "AI Model Assessment") < Len(call.rendered[r])

(***************************************************************************)
(* Properties of the server's responses                                    *)
(***************************************************************************)
\* the step that serves a request that is not a greeting
serves_request ==
  /\ call.status = "pending"
  /\ call.op = "generate_learning_resource"
  /\ call'.status = "done"
  /\ ~_is_greeting(call.args.aet_target)

\* the content the same request gets at the reading `now` of the clock, on the
\* same table and with the same answer of the classifier
content_at(now, out) ==
  generate_learning_resource(activity_rules, is_loaded, out, 0, now,
    call.args.student_age, call.args.aet_target, call.args.ability_level,
    call.args.format_type).value.response.content

\* C23: greeting selection is the only non-determinism of the pipeline.  For
\* every request that is not a greeting, with a deterministic classifier, the
\* content returned depends on the request's inputs only: whatever the clock
\* reads, and whichever path produced the response, the content is the same.
C23_ContentIndependentOfTime ==
  [][serves_request =>
       \A now \in Clock :
         \A out \in (IF call'.inference = <<>> THEN {NoClassifier}
                     ELSE {call'.inference[1]}) :
           content_at(now, out) = call'.result.content]_vars

required_metadata ==
  {"student_age", "ability_level", "aet_target", "format_type", "model_available"}

optional_metadata == {"activity_type", "prediction_label"}

\* C24: every successful response of generate_learning_resource, on every
\* path (greeting, mapped activity, rule-based activities, templated content),
\* carries content, timestamp and a metadata record that contains student_age,
\* ability_level, aet_target, format_type and model_available; activity_type
\* and prediction_label are the only optional metadata fields.
C24_OutputSchema ==
  (request_done /\ call.outcome = "return" /\ call.result.success) =>
    /\ {"content", "timestamp", "metadata"} \subseteq DOMAIN call.result
    /\ required_metadata \subseteq DOMAIN call.result.metadata
    /\ DOMAIN call.result.metadata \subseteq required_metadata \cup optional_metadata

\* the three lines of a model prediction: condition, confidence, recommendation
prediction_lines == {"section", "condition", "confidence", "advice"}

\* C25: for a successful generate_learning_resource request the content holds
\* the model prediction only: exactly three lines (predicted condition,
\* confidence, recommendation), the first of which contains 'Predicted
\* Condition:', and no other section.
C25_PredictionOnly ==
  (request_done /\ call.outcome = "return" /\ call.result.success) =>
    /\ ~_is_greeting(call.args.aet_target)
    /\ Len(call.result.content) = 1
    /\ call.result.content[1].section = "AI Model Assessment"
    /\ DOMAIN call.result.content[1] = prediction_lines

\* the note the activity path builds for the finished request
sample_note ==
  _create_sample_assessment(call.args.ability_level, call.args.aet_target).activity_note

\* an activity request served by a loaded predictor that answers as the
\* test's predictor does: the label derived from the note, with a probability
\* for each of the three labels
served_by_mock ==
  /\ is_activity_request
  /\ is_loaded
  /\ call.inference # <<>>
  /\ call.inference[1].prediction = MockPredictor(sample_note)
  /\ Len(call.inference[1].probabilities) = 3

default_names ==
  {"Basic Calming Activity", "Supported Learning Activity", "Independent Challenge"}

\* C26: with a loaded predictor that derives the label from the note as the
\* test's MockPredictor does, every activity request, whatever its text and
\* ability level, gets a specific activity of the rule table: the response is
\* a mapped activity whose recommended activity is none of the three defaults.
C26_SpecificActivity ==
  served_by_mock =>
    /\ call.result.success
    /\ call.result.metadata.format_type = "mapped_activity"
    /\ call.result.content[2].section = "Recommended Activity"
    /\ call.result.content[2].name \notin default_names

\* the request for a student ready for the next level got an activity of
\* label 2's rules
C26_Witness ==
  /\ served_by_mock
  /\ sample_note = <<"a","n","a","k"," ","d","a","p","a","t"," ","m","e","n","g","i","k","u","t","i"," ","i","n","s","t","r","u","k","s","i"," ","d","e","n","g","a","n"," ","b","a","i","k"," ","d","a","n"," ","m","a","n","d","i","r","i">>
  /\ call.inference[1].prediction = 2
  /\ call.result.content[2].name = "Multi-Step Problem Solving"

\* a response of the mapped-activity path
mapped_response ==
  /\ is_activity_request
  /\ call.outcome = "return"
  /\ call.result.success
  /\ call.result.metadata.format_type = "mapped_activity"

\* the types of a label's own rules and of its own default
types_of(label) ==
  {_load_activity_mapping_rules[label][k].type :
     k \in 1..Len(_load_activity_mapping_rules[label])}
  \cup {defaults[label].type}

\* C27: provenance.  In every mapped-activity response the prediction_label
\* of the activity, which the metadata repeats, is the label the classifier
\* returned for that request, and the selected template belongs to that
\* label: its type is the type of one of that label's own rules or of that
\* label's own default, and of no other label.
C27_Provenance ==
  mapped_response =>
    /\ call.inference # <<>>
    /\ call.inference[1].prediction \in Labels
    /\ call.result.metadata.prediction_label = call.inference[1].prediction
    /\ call.result.metadata.activity_type \in types_of(call.inference[1].prediction)
    /\ \A other \in Labels \ {call.inference[1].prediction} :
         call.result.metadata.activity_type \notin types_of(other)

\* the classifier answered label 2 for the tantrum note, which no rule of
\* label 2 matches: the response carries label 2 and label 2's own default
C27_Witness ==
  /\ mapped_response
  /\ sample_note = <<"a","n","a","k"," ","t","a","n","t","r","u","m"," ","d","a","n"," ","t","i","d","a","k"," ","b","i","s","a"," ","k","o","n","s","e","n","t","r","a","s","i">>
  /\ call.inference[1].prediction = 2
  /\ call.result.metadata.prediction_label = 2
  /\ call.result.metadata.activity_type = "default_independent"
  /\ call.result.content[2].name = "Independent Challenge"

\* the template the rules of the classifier's label select for the synthetic
\* note of the finished request
selected_for_sample_note ==
  select_activity(_load_activity_mapping_rules, call.inference[1].prediction,
                  sample_note).activity

\* the pattern of label 1's counting rule
counting_pattern == _load_activity_mapping_rules[1][1].pattern

\* C28: on the mapped-activity path the matcher is run on the synthetic note
\* that _create_sample_assessment chose (one of nine fixed notes), never on
\* the request text; so, whatever the request text, the ability level and the
\* classifier's label, that path never selects label 1's counting template
\* 'Counting Bears Adventure'.
C28_CountingNeverSelected ==
  mapped_response =>
    /\ call.result.metadata.activity_type = selected_for_sample_note.type
    /\ call.result.content[2].name = selected_for_sample_note.name
    /\ call.result.metadata.activity_type # "math_support"
    /\ call.result.content[2].name # "Counting Bears Adventure"

\* a request whose own text the counting pattern is found in, classified with
\* label 1, got the template of the synthetic note instead
C28_Witness ==
  /\ mapped_response
  /\ call.inference[1].prediction = 1
  /\ re_search(counting_pattern, lower(call.args.aet_target))
  /\ ~re_search(counting_pattern, lower(sample_note))
  /\ _load_activity_mapping_rules[1][1].activity.name = "Counting Bears Adventure"
  /\ call.result.content[2].name = "Hand-Over-Hand Number Matching"

(***************************************************************************)
(* Properties of the matcher's defaults                                    *)
(***************************************************************************)
\* C29: the matcher called with a label outside {0,1,2} raises no error: it
\* finds no rules for the label, returns label 1's default template
\* ('Supported Learning Activity') with the matched pattern "default", and
\* records the out-of-range label unchanged as prediction_label.
C29_OutOfRangeLabelDefault ==
  (matcher_done /\ call.args.label \notin Labels) =>
    /\ matching_rules = {}
    /\ call.result.name = "Supported Learning Activity"
    /\ call.result.name = defaults_of_call[1].name
    /\ call.result.type = defaults_of_call[1].type
    /\ call.result.level = defaults_of_call[1].level
    /\ call.result.matched_keywords = default_keywords
    /\ call.result.prediction_label = call.args.label

\* the chatbot's matcher has answered a call for label 3
C29_Witness ==
  /\ matcher_done
  /\ call.op = "_find_matching_activity"
  /\ call.args.label = 3
  /\ call.result.prediction_label = 3
  /\ call.result.type = "default_supported"

\* a finished call of the chatbot's matcher that fell back to the default
default_matched ==
  /\ matcher_done
  /\ call.op = "_find_matching_activity"
  /\ call.result.matched_keywords = default_keywords

\* what _get_default_activity_for_label(label) returns in the current state
default_now(label) == view(activity_rules, _get_default_activity_for_label(label))

\* C30: default templates are rebuilt on every call, so personalizing a
\* default-matched activity never affects a later request.  After any
\* sequence of requests with any interests, _get_default_activity_for_label
\* returns for each label the authored name, description, materials, steps
\* and duration, and a call that falls back to the default returns what it
\* returns on a freshly loaded instance.
C30_DefaultsRebuilt ==
  /\ \A label \in Labels :
       /\ default_now(label).name = defaults[label].name
       /\ default_now(label).description.text = defaults[label].description
       /\ default_now(label).description.for = <<>>
       /\ default_now(label).materials = defaults[label].materials
       /\ default_now(label).steps = defaults[label].steps
       /\ default_now(label).duration = defaults[label].duration
  /\ default_matched => call.result = fresh_result

\* a call without interests fell back to the default after an earlier call
\* with interests had done so: that call left the table as loaded, so it was
\* personalizing a default
C30_Witness ==
  /\ default_matched
  /\ ~generator_loaded
  /\ call.args.label \in Labels
  /\ call.args.interests = <<>>
  /\ personalized = 1
  /\ activity_rules = _load_activity_mapping_rules
  /\ call.result.materials = defaults[call.args.label].materials

====
